---- MODULE Spec2Model ----
(***************************************************************************)
(* The device session transport engine of src/src/stores/serial.ts: the    *)
(* serial store's routing flags, protocol buffer, openSession negotiation, *)
(* the session handle's send and close, the console shell and the read     *)
(* loop, as a state machine.  Every action is the code that runs between   *)
(* two await points of one coroutine; the scheduler (the JavaScript event  *)
(* loop) interleaves the coroutines at those points only.                  *)
(***************************************************************************)
EXTENDS Integers, Sequences, FiniteSets, TLC

\* ------------------------------------------------------------------ bounds
\* Largest window size the raw-paste transfer specification starts from.
MaxWindow == 3
\* Console writes recorded on the wire per session.
MaxConsole == 1

\* ------------------------------------------------------------- callers
\* The callers of openSession, named by the reason they pass (runCode passes
\* 'run', the sync store passes 'sync').
Tasks == {"run", "sync"}

\* ------------------------------------------------------------- byte helpers
RECURSIVE BitOr(_, _)
\* JavaScript's | on non-negative integers.
BitOr(a, b) ==
    IF a = 0 THEN b
    ELSE IF b = 0 THEN a
    ELSE (IF (a % 2 = 1) \/ (b % 2 = 1) THEN 1 ELSE 0) + 2 * BitOr(a \div 2, b \div 2)

\* JavaScript's x << 8 on a 32-bit integer: the operand is an element of a
\* Uint8Array, at most 255, so the result is at most 65280 and never wraps.
Shl8(x) == x * 256

\* windowSize = windowBytes[0] | (windowBytes[1] << 8), swapped byte order.
WindowSizeBigEndian(b0, b1) == BitOr(b1, Shl8(b0))

\* windowSize = windowBytes[0] | (windowBytes[1] << 8)
WindowSizeOf(b0, b1) == BitOr(b0, Shl8(b1))

\* ------------------------------------------------------------- text codec
\* Texts are sequences of code points, byte strings sequences of 0..255.
Replacement == 65533
ByteOrderMark == 65279

\* TextEncoder.encode of one code point (UTF-8).
EncodeCp(c) ==
    IF c < 128 THEN <<c>>
    ELSE IF c < 2048 THEN <<192 + (c \div 64), 128 + (c % 64)>>
    ELSE IF c < 65536 THEN
        <<224 + (c \div 4096), 128 + ((c \div 64) % 64), 128 + (c % 64)>>
    ELSE <<240 + (c \div 262144), 128 + ((c \div 4096) % 64),
           128 + ((c \div 64) % 64), 128 + (c % 64)>>

RECURSIVE Encode(_)
\* new TextEncoder().encode(text)
Encode(text) ==
    IF text = <<>> THEN <<>> ELSE EncodeCp(Head(text)) \o Encode(Tail(text))

RECURSIVE DecodeFrom(_, _, _, _, _, _)
\* The UTF-8 decoder's loop: i is the next byte, need the continuation bytes
\* still expected, cp the code point so far, lo..hi the range the next
\* continuation byte must lie in.  A malformed sequence yields U+FFFD and the
\* offending byte is read again as the start of a new sequence.
DecodeFrom(bs, i, need, cp, lo, hi) ==
    IF i > Len(bs) THEN (IF need # 0 THEN <<Replacement>> ELSE <<>>)
    ELSE LET b == bs[i] IN
        IF need = 0 THEN
            IF b <= 127 THEN <<b>> \o DecodeFrom(bs, i + 1, 0, 0, 128, 191)
            ELSE IF b >= 194 /\ b <= 223 THEN
                DecodeFrom(bs, i + 1, 1, b - 192, 128, 191)
            ELSE IF b >= 224 /\ b <= 239 THEN
                DecodeFrom(bs, i + 1, 2, b - 224,
                           IF b = 224 THEN 160 ELSE 128,
                           IF b = 237 THEN 159 ELSE 191)
            ELSE IF b >= 240 /\ b <= 244 THEN
                DecodeFrom(bs, i + 1, 3, b - 240,
                           IF b = 240 THEN 144 ELSE 128,
                           IF b = 244 THEN 143 ELSE 191)
            ELSE <<Replacement>> \o DecodeFrom(bs, i + 1, 0, 0, 128, 191)
        ELSE IF b < lo \/ b > hi THEN
            <<Replacement>> \o DecodeFrom(bs, i, 0, 0, 128, 191)
        ELSE IF need = 1 THEN
            <<cp * 64 + (b - 128)>> \o DecodeFrom(bs, i + 1, 0, 0, 128, 191)
        ELSE DecodeFrom(bs, i + 1, need - 1, cp * 64 + (b - 128), 128, 191)

\* new TextDecoder().decode(bytes): UTF-8, replacement on error, and a leading
\* byte order mark is dropped (ignoreBOM is false by default).
Decode(bs) ==
    LET t == DecodeFrom(bs, 1, 0, 0, 128, 191) IN
    IF t # <<>> /\ Head(t) = ByteOrderMark THEN Tail(t) ELSE t

\* String.prototype.indexOf, 1-based; 0 when the marker does not occur.
IndexOf(text, marker) ==
    LET hits == {i \in 1..(Len(text) - Len(marker) + 1) :
                    SubSeq(text, i, i + Len(marker) - 1) = marker}
    IN IF hits = {} THEN 0 ELSE CHOOSE i \in hits : \A j \in hits : i <= j

\* String.prototype.includes
Includes(text, marker) == IndexOf(text, marker) # 0

\* Uint8Array.prototype.slice(from) with a 0-based start.
SliceFrom(bs, from) == SubSeq(bs, from + 1, Len(bs))

\* Uint8Array.prototype.slice(from, to), 0-based, end exclusive and clamped.
Slice(bs, from, to) ==
    SubSeq(bs, from + 1, IF to > Len(bs) THEN Len(bs) ELSE to)

\* ------------------------------------------------------------- wire constants
EnterRaw == <<1>>
ExitRaw == <<2>>
Interrupt == <<3>>
EndOfData == <<4>>
\* '\x05A\x01'
Probe == <<5, 65, 1>>
\* "R\x01", "R\x00", "ra"
AckPair == <<82, 1>>
DeclinePair == <<82, 0>>
LegacyPair == <<114, 97>>
\* '>'
PromptMarker == <<62>>
\* 'raw REPL'
RawReplText == <<114, 97, 119, 32, 82, 69, 80, 76>>

\* What a device prints on entering raw mode: "raw REPL; CTRL-B to exit\r\n>"
PromptChunk ==
    <<114, 97, 119, 32, 82, 69, 80, 76, 59, 32, 67, 84, 82, 76, 45, 66, 32,
      116, 111, 32, 101, 120, 105, 116, 13, 10, 62>>
\* A prompt without the marker text: "x>"
BadPromptChunk == <<120, 62>>
\* The rest of the raw prompt after its first two bytes "ra".
LegacyRestChunk == SliceFrom(PromptChunk, 2)
\* Two bytes that are no known probe answer: "OK"
OtherPair == <<79, 75>>
\* The friendly prompt printed after leaving raw mode: ">>> "
FriendlyChunk == <<62, 62, 62, 32>>


\* ------------------------------------------------------------------ state
VARIABLES
    \* the store's closure state
    port,                  \* TRUE when port.value is set (isConnected)
    busy,                  \* "null" or the reason of busy.value
    sessionActive,
    sessionOnData,         \* "null" or the caller whose callback is registered
    protocolBuffer,
    protocolBufferActive,
    \* one openSession call per caller: its position and its locals
    opc,                   \* where the openSession coroutine is suspended
    ores,                  \* how the caller's last openSession call settled
    handle,                \* "none", "open" (resolved, close() not settled) or "closed"
    useRawPaste,
    windowSize,
    rawPrompt,             \* readUntil's result, <<>> for null
    response,              \* readBytes(2)'s result, <<>> for null
    windowBytes,           \* readBytes(2)'s result, <<>> for null
    initFlow,              \* the initial flow-control byte read, <<>> for null
    \* session.send
    spc,
    sres,
    text,                  \* send's argument
    offset,
    remaining,
    \* session.close
    cpc,
    cres,
    \* the transport
    wire,                  \* the writes the transport saw since the last session began
    dev,                   \* the last session write the device has not answered yet
    rx,                    \* chunks the device sent that the read loop has not read yet
    routed,                \* where the read loop delivered the last chunk it read
    \* the connection
    kpc,                   \* where the connect() coroutine is suspended
    kres,                  \* how the last connect() call settled
    dpc,                   \* where the disconnect() coroutine is suspended
    transport,             \* TRUE while the serial port last picked is open
    currentReader,         \* "null", or whose reader it is: that of the loop on the
                           \* port last picked ("cur") or on the lost port ("lost")
    reading,               \* TRUE while a read loop holds the reader of that port
    lost                   \* a port opened earlier whose handle was replaced: "none",
                           \* "open", "reading" (its loop runs), "ended" (its loop ended)

storeVars == <<port, busy, sessionActive, sessionOnData, protocolBuffer, protocolBufferActive>>
openVars == <<opc, ores, handle, useRawPaste, windowSize, rawPrompt, response, windowBytes, initFlow>>
sendVars == <<spc, sres, text, offset, remaining>>
closeVars == <<cpc, cres>>
envVars == <<wire, dev, rx>>
connVars == <<kpc, kres, dpc, transport, currentReader, reading, lost>>
vars == <<storeVars, openVars, sendVars, closeVars, envVars, routed, connVars>>

\* The positions of openSession between its guard and its return.
NegPcs == {"n_enter", "n_prompt", "n_probe", "n_resp", "n_win", "n_flow", "n_legacy"}

\* Lifetime of the session a caller opened.
Negotiating(t) == opc[t] \in NegPcs
Active(t) == handle[t] = "open" /\ cpc[t] = "idle"
Closing(t) == handle[t] = "open" /\ cpc[t] # "idle"
Live(t) == Negotiating(t) \/ Active(t) \/ Closing(t)

\* State after construction of the store (lines 9-24).
Init ==
    /\ port = FALSE
    /\ busy = "null"
    /\ sessionActive = FALSE
    /\ sessionOnData = "null"
    /\ protocolBuffer = <<>>
    /\ protocolBufferActive = FALSE
    /\ opc = [t \in Tasks |-> "idle"]
    /\ ores = [t \in Tasks |-> "none"]
    /\ handle = [t \in Tasks |-> "none"]
    /\ useRawPaste = [t \in Tasks |-> FALSE]
    /\ windowSize = [t \in Tasks |-> 0]
    /\ rawPrompt = [t \in Tasks |-> <<>>]
    /\ response = [t \in Tasks |-> <<>>]
    /\ windowBytes = [t \in Tasks |-> <<>>]
    /\ initFlow = [t \in Tasks |-> <<>>]
    /\ spc = [t \in Tasks |-> "idle"]
    /\ sres = [t \in Tasks |-> "none"]
    /\ text = [t \in Tasks |-> <<>>]
    /\ offset = [t \in Tasks |-> 0]
    /\ remaining = [t \in Tasks |-> 0]
    /\ cpc = [t \in Tasks |-> "idle"]
    /\ cres = [t \in Tasks |-> "none"]
    /\ wire = <<>>
    /\ dev = "none"
    /\ rx = <<>>
    /\ routed = "none"
    /\ kpc = "idle"
    /\ kres = "none"
    /\ dpc = "idle"
    /\ transport = FALSE
    /\ currentReader = "null"
    /\ reading = FALSE
    /\ lost = "none"

\* ------------------------------------------------------------- transport
\* writeRaw writes only when port.value is set and the port has a writable
\* stream, which it has while it is open (line 27).
Writable == port /\ transport

\* What the transport records of writeRaw(text) by `who`: nothing when writeRaw
\* returns at line 27 or when the text encodes to no bytes.
Written(who, bytes) ==
    IF Writable /\ bytes # <<>> THEN <<[by |-> who, bytes |-> bytes]>> ELSE <<>>

\* The device has something to answer once bytes really reached it.
Stimulus(kind, bytes) == IF Writable /\ bytes # <<>> THEN kind ELSE dev

\* connect() from its call to its return with no other call in between: either
\* every step succeeds (the port is open, the read loop runs, the wake sequence
\* is written) or the request for the port fails and nothing is retained.
connect(ok) ==
    /\ ~port /\ ~transport /\ kpc = "idle" /\ dpc = "idle"
    /\ port' = ok
    /\ transport' = ok
    /\ currentReader' = IF ok THEN "cur" ELSE currentReader
    /\ reading' = ok
    /\ kres' = "resolved"
    /\ wire' = IF ok
               THEN <<[by |-> "connect", bytes |-> Interrupt],
                      [by |-> "connect", bytes |-> EndOfData],
                      [by |-> "connect", bytes |-> <<13, 10>>]>>
               ELSE wire
    /\ UNCHANGED <<busy, sessionActive, sessionOnData, protocolBuffer, protocolBufferActive>>
    /\ UNCHANGED <<openVars, sendVars, closeVars, dev, rx, routed, kpc, dpc, lost>>

\* A read loop that hands every chunk read outside capture to the console.
RouteToConsole == IF protocolBufferActive THEN "buffer" ELSE "console"

\* Where the read loop delivers a chunk (lines 47-57): to the protocol buffer
\* under capture, else as text to the session callback if a session is active
\* (to nobody if none is registered), else to the console callback, which the
\* terminal registers when it is mounted.
RouteOf ==
    IF protocolBufferActive THEN "buffer"
    ELSE IF sessionActive THEN (IF sessionOnData # "null" THEN "session" ELSE "nobody")
    ELSE "console"

\* startReading's loop body (lines 42-57): one chunk read and routed by the flags
\* as they are at the time of the read.
startReading ==
    /\ reading
    /\ rx # <<>>
    /\ rx' = Tail(rx)
    /\ routed' = RouteOf
    /\ protocolBuffer' = IF RouteOf = "buffer"
                         THEN protocolBuffer \o Head(rx)
                         ELSE protocolBuffer
    /\ UNCHANGED <<port, busy, sessionActive, sessionOnData, protocolBufferActive>>
    /\ UNCHANGED <<openVars, sendVars, closeVars, wire, dev, connVars>>

\* What a device may send after each kind of write of a session: a sequence of
\* chunks, the empty sequence being a device that ignores the write.
Answers(kind) ==
    CASE kind = "enter" -> {<<>>, <<PromptChunk>>, <<BadPromptChunk>>}
      [] kind = "probe" -> {<<>>, <<AckPair, <<2, 0>>, <<1>>>>, <<DeclinePair>>,
                            <<LegacyPair, LegacyRestChunk>>, <<OtherPair>>}
      [] kind = "data" -> {<<>>, <<<<1>>>>, <<<<4>>>>, <<<<127>>>>}
      [] kind = "eod" -> {<<>>, <<<<4>>>>}
      [] kind = "exit" -> {<<>>, <<FriendlyChunk>>}
      [] OTHER -> {}

\* The line is quiet: the device owes no answer and the read loop has read
\* everything.  Callers start a session on a quiet line; what the device sends
\* during a session arrives at any time.
QuietLine == rx = <<>> /\ dev = "none"

\* The device answers the last write with one of the given scripts, once the
\* read loop has read its previous answer (a chunk is seen by the program only
\* when the read loop routes it, so an answer queued behind an unread one is no
\* different from one sent after it was read).  A device that stays silent is
\* one that never takes this step.
DeviceAnswer(script) ==
    /\ dev # "none"
    /\ rx = <<>>
    /\ rx' = rx \o script
    /\ dev' = "none"
    /\ UNCHANGED <<storeVars, openVars, sendVars, closeVars, wire>>
    /\ UNCHANGED <<routed, connVars>>


\* ------------------------------------------------------------- protocol helpers
\* Both helpers poll every 10 ms until a deadline (lines 72, 86): a poll that
\* finds what it waits for returns it, and the deadline may pass at any time, also
\* between the arrival of the bytes and the next poll, so a timeout has no guard
\* on the buffer.
\* readBytes(count): the poll finds enough bytes, returns the first count and
\* keeps the remainder (lines 73-76).
readBytesReady(count) == Len(protocolBuffer) >= count
readBytesResult(count) == Slice(protocolBuffer, 0, count)
readBytesRest(count) == SliceFrom(protocolBuffer, count)

\* readUntil(marker): the buffer is decoded, the marker searched in the text, and
\* the byte length of the re-encoded match removed from the buffer (lines 87-94).
readUntilReady(marker) == IndexOf(Decode(protocolBuffer), marker) # 0
readUntilResult(marker) ==
    LET decoded == Decode(protocolBuffer)
        idx == IndexOf(decoded, marker)
    IN SubSeq(decoded, 1, idx + Len(marker) - 1)
readUntilRest(marker) == SliceFrom(protocolBuffer, Len(Encode(readUntilResult(marker))))

\* ------------------------------------------------------------- openSession
\* The catch block of openSession with one assignment missing.
RollbackKeepsActive ==
    /\ protocolBufferActive' = FALSE
    /\ sessionActive' = sessionActive
    /\ busy' = "null"

\* The catch block of openSession (lines 167-172).
Rollback ==
    /\ protocolBufferActive' = FALSE
    /\ sessionActive' = FALSE
    /\ busy' = "null"

\* openSession rejects from inside its try block.
Reject(t, why) ==
    /\ Rollback
    /\ opc' = [opc EXCEPT ![t] = "idle"]
    /\ ores' = [ores EXCEPT ![t] = why]

\* openSession leaves its try block and returns the handle (lines 165, 174).
Resolve(t) ==
    /\ protocolBufferActive' = FALSE
    /\ opc' = [opc EXCEPT ![t] = "idle"]
    /\ ores' = [ores EXCEPT ![t] = "resolved"]
    /\ handle' = [handle EXCEPT ![t] = "open"]
    /\ UNCHANGED <<busy, sessionActive>>

\* A guard of openSession that throws after busy has been assigned.
GuardThrowsAfterBusy(t, why) ==
    /\ ores' = [ores EXCEPT ![t] = why]
    /\ busy' = t
    /\ UNCHANGED <<port, sessionActive, sessionOnData, protocolBuffer, protocolBufferActive>>
    /\ UNCHANGED <<opc, handle, useRawPaste, windowSize, rawPrompt,
                   response, windowBytes, initFlow, sendVars, closeVars, envVars>>

\* A guard of openSession throws (lines 116-117): nothing has been assigned yet.
GuardThrows(t, why) ==
    /\ ores' = [ores EXCEPT ![t] = why]
    /\ UNCHANGED <<storeVars, opc, handle, useRawPaste, windowSize, rawPrompt,
                   response, windowBytes, initFlow, sendVars, closeVars, envVars>>

\* The assignments after the guards, with sessionActive left to be set after
\* the first await.
BeginLateFlag(t) ==
    /\ busy' = t
    /\ sessionActive' = sessionActive
    /\ protocolBufferActive' = TRUE
    /\ protocolBuffer' = <<>>
    /\ opc' = [opc EXCEPT ![t] = "n_enter"]
    /\ ores' = [ores EXCEPT ![t] = "pending"]
    /\ handle' = [handle EXCEPT ![t] = "none"]
    /\ useRawPaste' = [useRawPaste EXCEPT ![t] = FALSE]
    /\ windowSize' = [windowSize EXCEPT ![t] = 0]
    /\ rawPrompt' = [rawPrompt EXCEPT ![t] = <<>>]
    /\ response' = [response EXCEPT ![t] = <<>>]
    /\ windowBytes' = [windowBytes EXCEPT ![t] = <<>>]
    /\ initFlow' = [initFlow EXCEPT ![t] = <<>>]
    /\ sres' = [sres EXCEPT ![t] = "none"]
    /\ text' = [text EXCEPT ![t] = <<>>]
    /\ offset' = [offset EXCEPT ![t] = 0]
    /\ remaining' = [remaining EXCEPT ![t] = 0]
    /\ cres' = [cres EXCEPT ![t] = "none"]
    /\ wire' = <<>>
    /\ UNCHANGED <<port, sessionOnData, spc, cpc, dev, rx>>

\* The assignments after the guards (lines 118-126) and the start of the write
\* of the enter-raw byte (line 130).  The locals of the new call and the results
\* of the caller's previous session start afresh, and so does the record of
\* what the transport saw.
Begin(t) ==
    /\ busy' = t
    /\ sessionActive' = TRUE
    /\ protocolBufferActive' = TRUE
    /\ protocolBuffer' = <<>>
    /\ opc' = [opc EXCEPT ![t] = "n_enter"]
    /\ ores' = [ores EXCEPT ![t] = "pending"]
    /\ handle' = [handle EXCEPT ![t] = "none"]
    /\ useRawPaste' = [useRawPaste EXCEPT ![t] = FALSE]
    /\ windowSize' = [windowSize EXCEPT ![t] = 0]
    /\ rawPrompt' = [rawPrompt EXCEPT ![t] = <<>>]
    /\ response' = [response EXCEPT ![t] = <<>>]
    /\ windowBytes' = [windowBytes EXCEPT ![t] = <<>>]
    /\ initFlow' = [initFlow EXCEPT ![t] = <<>>]
    /\ sres' = [sres EXCEPT ![t] = "none"]
    /\ text' = [text EXCEPT ![t] = <<>>]
    /\ offset' = [offset EXCEPT ![t] = 0]
    /\ remaining' = [remaining EXCEPT ![t] = 0]
    /\ cres' = [cres EXCEPT ![t] = "none"]
    /\ wire' = <<>>
    /\ UNCHANGED <<port, sessionOnData, spc, cpc, dev, rx>>

\* writeRaw takes the stream's writer for the duration of one write (lines
\* 28-32): while a write of some caller is in flight the stream is locked, and
\* getWriter() throws for anyone else.
WriterLocked ==
    \E u \in Tasks :
        \/ opc[u] \in {"n_enter", "n_probe"}
        \/ spc[u] \in {"s_chunk", "s_eod", "p_text", "p_eod"}
        \/ cpc[u] = "c_exit"

\* The assignments after the guards (lines 118-126) when the stream is locked:
\* writeRaw throws at line 28 without an await and the catch block (lines
\* 167-172) runs at once.  The protocol buffer has been replaced at line 123.
BeginLocked(t) ==
    /\ busy' = "null"
    /\ sessionActive' = FALSE
    /\ protocolBufferActive' = FALSE
    /\ protocolBuffer' = <<>>
    /\ ores' = [ores EXCEPT ![t] = "WriterLocked"]
    /\ handle' = [handle EXCEPT ![t] = "none"]
    /\ sres' = [sres EXCEPT ![t] = "none"]
    /\ cres' = [cres EXCEPT ![t] = "none"]
    /\ UNCHANGED <<port, sessionOnData, opc, useRawPaste, windowSize, rawPrompt, response,
                   windowBytes, initFlow, spc, text, offset, remaining, cpc, envVars>>

\* openSession(reason) up to its first await (lines 115-130): the two guards,
\* then the assignments.  A caller opens a session only when it holds no open
\* handle and none of its calls is in flight.
openSession(t) ==
    /\ opc[t] = "idle" /\ spc[t] = "idle" /\ cpc[t] = "idle"
    /\ handle[t] # "open"
    /\ IF ~port THEN GuardThrows(t, "NotConnected")
       ELSE IF sessionActive THEN GuardThrows(t, "SessionAlreadyActive")
       ELSE QuietLine /\ (IF WriterLocked THEN BeginLocked(t) ELSE Begin(t))
    /\ UNCHANGED <<routed, connVars>>

\* The write of 0x01 settles (line 130); readUntil('>', 2000) starts polling.
EnterWritten(t, ok) ==
    /\ opc[t] = "n_enter"
    /\ IF ok THEN
           /\ wire' = wire \o Written(t, EnterRaw)
           /\ dev' = Stimulus("enter", EnterRaw)
           /\ opc' = [opc EXCEPT ![t] = "n_prompt"]
           /\ UNCHANGED <<busy, sessionActive, protocolBufferActive, ores>>
       ELSE
           /\ Reject(t, "WriteFailed")
           /\ UNCHANGED <<wire, dev>>
    /\ UNCHANGED <<port, sessionOnData, protocolBuffer, handle, useRawPaste, windowSize,
                   rawPrompt, response, windowBytes, initFlow, sendVars, closeVars, rx>>
    /\ UNCHANGED <<routed, connVars>>

\* readUntil('>') finds the marker and the prompt is accepted whatever it says.
PromptTakenUnchecked(t) ==
    /\ opc[t] = "n_prompt"
    /\ readUntilReady(PromptMarker)
    /\ rawPrompt' = [rawPrompt EXCEPT ![t] = readUntilResult(PromptMarker)]
    /\ protocolBuffer' = readUntilRest(PromptMarker)
    /\ opc' = [opc EXCEPT ![t] = "n_probe"]
    /\ UNCHANGED <<busy, sessionActive, protocolBufferActive, ores>>
    /\ UNCHANGED <<port, sessionOnData, handle, useRawPaste, windowSize,
                   response, windowBytes, initFlow, sendVars, closeVars, envVars>>
    /\ UNCHANGED <<routed, connVars>>

\* readUntil('>') finds the marker (lines 131-137): the prompt is checked for
\* 'raw REPL' and, if present, the write of the probe is started.
PromptTaken(t) ==
    /\ opc[t] = "n_prompt"
    /\ readUntilReady(PromptMarker)
    /\ rawPrompt' = [rawPrompt EXCEPT ![t] = readUntilResult(PromptMarker)]
    /\ protocolBuffer' = readUntilRest(PromptMarker)
    /\ IF Includes(readUntilResult(PromptMarker), RawReplText) THEN
           /\ opc' = [opc EXCEPT ![t] = "n_probe"]
           /\ UNCHANGED <<busy, sessionActive, protocolBufferActive, ores>>
       ELSE Reject(t, "Failed to enter raw REPL")
    /\ UNCHANGED <<port, sessionOnData, handle, useRawPaste, windowSize,
                   response, windowBytes, initFlow, sendVars, closeVars, envVars>>
    /\ UNCHANGED <<routed, connVars>>

\* readUntil for the prompt without a deadline: it keeps polling.
PromptWaitsOn(t) ==
    /\ opc[t] = "n_prompt"
    /\ UNCHANGED vars

\* readUntil('>', 2000) returns null (lines 131-134).
PromptTimeout(t) ==
    /\ opc[t] = "n_prompt"
    /\ Reject(t, "Failed to enter raw REPL")
    /\ UNCHANGED <<port, sessionOnData, protocolBuffer, handle, useRawPaste, windowSize,
                   rawPrompt, response, windowBytes, initFlow, sendVars, closeVars, envVars>>
    /\ UNCHANGED <<routed, connVars>>

\* The write of the probe settles (line 137); readBytes(2, 1000) starts polling.
ProbeWritten(t, ok) ==
    /\ opc[t] = "n_probe"
    /\ IF ok THEN
           /\ wire' = wire \o Written(t, Probe)
           /\ dev' = Stimulus("probe", Probe)
           /\ opc' = [opc EXCEPT ![t] = "n_resp"]
           /\ UNCHANGED <<busy, sessionActive, protocolBufferActive, ores>>
       ELSE
           /\ Reject(t, "WriteFailed")
           /\ UNCHANGED <<wire, dev>>
    /\ UNCHANGED <<port, sessionOnData, protocolBuffer, handle, useRawPaste, windowSize,
                   rawPrompt, response, windowBytes, initFlow, sendVars, closeVars, rx>>
    /\ UNCHANGED <<routed, connVars>>

\* The branch on the two probe bytes that treats an unknown pair as support.
AfterResponseLenient(t, r) ==
    IF r = DeclinePair THEN
        /\ Resolve(t)
        /\ UNCHANGED useRawPaste
    ELSE IF r = LegacyPair THEN
        /\ opc' = [opc EXCEPT ![t] = "n_legacy"]
        /\ UNCHANGED <<busy, sessionActive, protocolBufferActive, ores, handle, useRawPaste>>
    ELSE
        /\ useRawPaste' = [useRawPaste EXCEPT ![t] = TRUE]
        /\ opc' = [opc EXCEPT ![t] = "n_win"]
        /\ UNCHANGED <<busy, sessionActive, protocolBufferActive, ores, handle>>

\* The branch on the two probe bytes (lines 140-165).
AfterResponse(t, r) ==
    IF r = AckPair THEN
        /\ useRawPaste' = [useRawPaste EXCEPT ![t] = TRUE]
        /\ opc' = [opc EXCEPT ![t] = "n_win"]
        /\ UNCHANGED <<busy, sessionActive, protocolBufferActive, ores, handle>>
    ELSE IF r = DeclinePair THEN
        /\ Resolve(t)
        /\ useRawPaste' = [useRawPaste EXCEPT ![t] = FALSE]
    ELSE IF r = LegacyPair THEN
        /\ opc' = [opc EXCEPT ![t] = "n_legacy"]
        /\ UNCHANGED <<busy, sessionActive, protocolBufferActive, ores, handle, useRawPaste>>
    ELSE
        /\ Resolve(t)
        /\ UNCHANGED useRawPaste

\* readBytes(2, 1000) returns the probe answer (lines 138-161).
ResponseTaken(t) ==
    /\ opc[t] = "n_resp"
    /\ readBytesReady(2)
    /\ response' = [response EXCEPT ![t] = readBytesResult(2)]
    /\ protocolBuffer' = readBytesRest(2)
    /\ AfterResponse(t, readBytesResult(2))
    /\ UNCHANGED <<port, sessionOnData, windowSize, rawPrompt, windowBytes, initFlow,
                   sendVars, closeVars, envVars>>
    /\ UNCHANGED <<routed, connVars>>

\* readBytes(2, 1000) returns null: no branch is taken (lines 140, 165).
ResponseTimeout(t) ==
    /\ opc[t] = "n_resp"
    /\ Resolve(t)
    /\ UNCHANGED <<port, sessionOnData, protocolBuffer, useRawPaste, windowSize, rawPrompt,
                   response, windowBytes, initFlow, sendVars, closeVars, envVars>>
    /\ UNCHANGED <<routed, connVars>>

\* The two window bytes arrive (lines 147-152); readBytes(1, 1000) starts.
WindowTaken(t) ==
    /\ opc[t] = "n_win"
    /\ readBytesReady(2)
    /\ windowBytes' = [windowBytes EXCEPT ![t] = readBytesResult(2)]
    /\ windowSize' = [windowSize EXCEPT ![t] =
                         WindowSizeOf(readBytesResult(2)[1], readBytesResult(2)[2])]
    /\ protocolBuffer' = readBytesRest(2)
    /\ opc' = [opc EXCEPT ![t] = "n_flow"]
    /\ UNCHANGED <<port, busy, sessionActive, sessionOnData, protocolBufferActive, ores,
                   handle, useRawPaste, rawPrompt, response, initFlow,
                   sendVars, closeVars, envVars>>
    /\ UNCHANGED <<routed, connVars>>

\* The window bytes do not arrive in time: windowSize keeps its default (line 148).
WindowTimeout(t) ==
    /\ opc[t] = "n_win"
    /\ Resolve(t)
    /\ UNCHANGED <<port, sessionOnData, protocolBuffer, useRawPaste, windowSize, rawPrompt,
                   response, windowBytes, initFlow, sendVars, closeVars, envVars>>
    /\ UNCHANGED <<routed, connVars>>

\* The initial flow-control byte is read and dropped (line 152).
InitialFlowTaken(t) ==
    /\ opc[t] = "n_flow"
    /\ readBytesReady(1)
    /\ initFlow' = [initFlow EXCEPT ![t] = readBytesResult(1)]
    /\ protocolBuffer' = readBytesRest(1)
    /\ Resolve(t)
    /\ UNCHANGED <<port, sessionOnData, useRawPaste, windowSize, rawPrompt,
                   response, windowBytes, sendVars, closeVars, envVars>>
    /\ UNCHANGED <<routed, connVars>>

\* The initial flow-control byte does not arrive in time (line 152).
InitialFlowTimeout(t) ==
    /\ opc[t] = "n_flow"
    /\ Resolve(t)
    /\ UNCHANGED <<port, sessionOnData, protocolBuffer, useRawPaste, windowSize, rawPrompt,
                   response, windowBytes, initFlow, sendVars, closeVars, envVars>>
    /\ UNCHANGED <<routed, connVars>>

\* The rest of a legacy device's prompt is consumed (lines 159-160).
LegacyTaken(t) ==
    /\ opc[t] = "n_legacy"
    /\ readUntilReady(PromptMarker)
    /\ protocolBuffer' = readUntilRest(PromptMarker)
    /\ useRawPaste' = [useRawPaste EXCEPT ![t] = FALSE]
    /\ Resolve(t)
    /\ UNCHANGED <<port, sessionOnData, windowSize, rawPrompt,
                   response, windowBytes, initFlow, sendVars, closeVars, envVars>>
    /\ UNCHANGED <<routed, connVars>>

\* readUntil('>', 1000) returns null, which the code ignores (lines 159-160).
LegacyTimeout(t) ==
    /\ opc[t] = "n_legacy"
    /\ useRawPaste' = [useRawPaste EXCEPT ![t] = FALSE]
    /\ Resolve(t)
    /\ UNCHANGED <<port, sessionOnData, protocolBuffer, windowSize, rawPrompt,
                   response, windowBytes, initFlow, sendVars, closeVars, envVars>>
    /\ UNCHANGED <<routed, connVars>>


\* ------------------------------------------------------------- session.send
\* encoder.encode(text) (line 179)
Data(t) == Encode(text[t])

\* The bytes writeRaw puts on the wire for one chunk: the chunk is decoded to a
\* string (line 185) and writeRaw encodes that string again (line 30).
ChunkBytes(chunk) == Encode(Decode(chunk))

\* data.slice(offset, offset + remaining) (line 184)
Chunk(t) == Slice(Data(t), offset[t], offset[t] + remaining[t])

\* The callers that send: runCode sends the active file; the sync store, whose
\* plan may be empty, opens and closes a session without sending.
Senders == {"run"}

\* session.send(text) up to its first await (lines 175-185, 212).  A caller
\* sends once per session and before it closes, as runCode does.
SendCall(t, p) ==
    /\ t \in Senders
    /\ handle[t] = "open" /\ spc[t] = "idle" /\ cpc[t] = "idle"
    /\ sres[t] = "none"
    /\ text' = [text EXCEPT ![t] = p]
    /\ sres' = [sres EXCEPT ![t] = "pending"]
    /\ IF useRawPaste[t] THEN
           /\ offset' = [offset EXCEPT ![t] = 0]
           /\ remaining' = [remaining EXCEPT ![t] = windowSize[t]]
           /\ spc' = [spc EXCEPT ![t] = IF 0 < Len(Encode(p)) THEN "s_chunk" ELSE "s_eod"]
       ELSE
           /\ spc' = [spc EXCEPT ![t] = "p_text"]
           /\ UNCHANGED <<offset, remaining>>
    /\ UNCHANGED <<storeVars, openVars, closeVars, envVars>>
    /\ UNCHANGED <<routed, connVars>>

\* send settles: its locals offset and remaining are gone.
SendSettles(t, how) ==
    /\ spc' = [spc EXCEPT ![t] = "idle"]
    /\ sres' = [sres EXCEPT ![t] = how]
    /\ offset' = [offset EXCEPT ![t] = 0]
    /\ remaining' = [remaining EXCEPT ![t] = 0]

\* The write of one chunk settles (lines 185-199): offset and remaining advance
\* and either the flow-control wait starts, or the loop ends and the write of
\* the end-of-data byte starts.  An error of writeRaw rejects send as it is:
\* send has no try block.
ChunkWritten(t, ok) ==
    /\ spc[t] = "s_chunk"
    /\ IF ok THEN
           LET chunk == Chunk(t)
               off == offset[t] + Len(chunk)
               rem == remaining[t] - Len(chunk)
           IN /\ wire' = wire \o Written(t, ChunkBytes(chunk))
              /\ dev' = Stimulus("data", ChunkBytes(chunk))
              /\ offset' = [offset EXCEPT ![t] = off]
              /\ remaining' = [remaining EXCEPT ![t] = rem]
              /\ IF rem = 0 /\ off < Len(Data(t)) THEN
                     /\ protocolBufferActive' = TRUE
                     /\ spc' = [spc EXCEPT ![t] = "s_flow"]
                 ELSE
                     /\ spc' = [spc EXCEPT ![t] =
                                   IF off < Len(Data(t)) THEN "s_chunk" ELSE "s_eod"]
                     /\ UNCHANGED protocolBufferActive
              /\ UNCHANGED sres
       ELSE
           /\ SendSettles(t, "rejected")
           /\ UNCHANGED <<wire, dev, protocolBufferActive>>
    /\ UNCHANGED <<port, busy, sessionActive, sessionOnData, protocolBuffer,
                   openVars, text, closeVars, rx>>
    /\ UNCHANGED <<routed, connVars>>

\* The flow-control byte taken without the test for 0x04: the loop goes on
\* whatever the byte is.
FlowTakenNoAbort(t) ==
    /\ spc[t] = "s_flow"
    /\ readBytesReady(1)
    /\ protocolBuffer' = readBytesRest(1)
    /\ protocolBufferActive' = FALSE
    /\ remaining' = [remaining EXCEPT ![t] =
                        IF readBytesResult(1)[1] = 1 THEN windowSize[t] ELSE remaining[t]]
    /\ spc' = [spc EXCEPT ![t] = "s_chunk"]
    /\ UNCHANGED <<port, busy, sessionActive, sessionOnData, openVars,
                   sres, text, offset, closeVars, envVars>>
    /\ UNCHANGED <<routed, connVars>>

\* readBytes(1, 5000) returns the flow-control byte (lines 192-198): 0x01 refills
\* the window, 0x04 ends the loop, any other byte changes nothing.
FlowTaken(t) ==
    /\ spc[t] = "s_flow"
    /\ readBytesReady(1)
    /\ protocolBuffer' = readBytesRest(1)
    /\ protocolBufferActive' = FALSE
    /\ LET flowByte == readBytesResult(1)[1] IN
        /\ remaining' = [remaining EXCEPT ![t] =
                            IF flowByte = 1 THEN windowSize[t] ELSE remaining[t]]
        /\ spc' = [spc EXCEPT ![t] = IF flowByte = 4 THEN "s_eod" ELSE "s_chunk"]
    /\ UNCHANGED <<port, busy, sessionActive, sessionOnData, openVars,
                   sres, text, offset, closeVars, envVars>>
    /\ UNCHANGED <<routed, connVars>>

\* readBytes(1, 5000) returns null: the loop goes on with remaining = 0.
FlowTimeout(t) ==
    /\ spc[t] = "s_flow"
    /\ protocolBufferActive' = FALSE
    /\ spc' = [spc EXCEPT ![t] = "s_chunk"]
    /\ UNCHANGED <<port, busy, sessionActive, sessionOnData, protocolBuffer, openVars,
                   sres, text, offset, remaining, closeVars, envVars>>
    /\ UNCHANGED <<routed, connVars>>

\* The write of the end-of-data byte settles (lines 203-207); the wait for the
\* compilation acknowledgement starts.
EndWritten(t, ok) ==
    /\ spc[t] = "s_eod"
    /\ IF ok THEN
           /\ wire' = wire \o Written(t, EndOfData)
           /\ dev' = Stimulus("eod", EndOfData)
           /\ protocolBufferActive' = TRUE
           /\ spc' = [spc EXCEPT ![t] = "s_ack"]
           /\ UNCHANGED <<sres, offset, remaining>>
       ELSE
           /\ SendSettles(t, "rejected")
           /\ UNCHANGED <<wire, dev, protocolBufferActive>>
    /\ UNCHANGED <<port, busy, sessionActive, sessionOnData, protocolBuffer,
                   openVars, text, closeVars, rx>>
    /\ UNCHANGED <<routed, connVars>>

\* readBytes(1, 5000) for the acknowledgement returns a byte or null (207-208).
AckSettled(t) ==
    /\ spc[t] = "s_ack"
    /\ protocolBuffer' = IF readBytesReady(1) THEN readBytesRest(1) ELSE protocolBuffer
    /\ protocolBufferActive' = FALSE
    /\ SendSettles(t, "resolved")
    /\ UNCHANGED <<port, busy, sessionActive, sessionOnData, openVars,
                   text, closeVars, envVars>>
    /\ UNCHANGED <<routed, connVars>>

\* Plain raw mode: the write of the text settles (line 212).
TextWritten(t, ok) ==
    /\ spc[t] = "p_text"
    /\ IF ok THEN
           /\ wire' = wire \o Written(t, Data(t))
           /\ dev' = Stimulus("data", Data(t))
           /\ spc' = [spc EXCEPT ![t] = "p_eod"]
           /\ UNCHANGED <<sres, offset, remaining>>
       ELSE
           /\ SendSettles(t, "rejected")
           /\ UNCHANGED <<wire, dev>>
    /\ UNCHANGED <<storeVars, openVars, text, closeVars, rx>>
    /\ UNCHANGED <<routed, connVars>>

\* Plain raw mode ending as the raw-paste branch does: after the write of 0x04
\* it enables capture and waits for an acknowledgement.
PlainEndWrittenWaits(t, ok) ==
    /\ spc[t] = "p_eod"
    /\ wire' = wire \o Written(t, EndOfData)
    /\ dev' = Stimulus("eod", EndOfData)
    /\ protocolBufferActive' = TRUE
    /\ spc' = [spc EXCEPT ![t] = "s_ack"]
    /\ UNCHANGED <<port, busy, sessionActive, sessionOnData, protocolBuffer,
                   openVars, sres, text, offset, remaining, closeVars, rx>>
    /\ UNCHANGED <<routed, connVars>>

\* Plain raw mode: the write of 0x04 settles and send returns (line 213).
PlainEndWritten(t, ok) ==
    /\ spc[t] = "p_eod"
    /\ IF ok THEN
           /\ wire' = wire \o Written(t, EndOfData)
           /\ dev' = Stimulus("eod", EndOfData)
           /\ SendSettles(t, "resolved")
       ELSE
           /\ SendSettles(t, "rejected")
           /\ UNCHANGED <<wire, dev>>
    /\ UNCHANGED <<storeVars, openVars, text, closeVars, rx>>
    /\ UNCHANGED <<routed, connVars>>

\* session.onData(cb) (lines 216-218)
onData(t) ==
    /\ handle[t] = "open" /\ cpc[t] = "idle"
    /\ sessionOnData # t
    /\ sessionOnData' = t
    /\ UNCHANGED <<port, busy, sessionActive, protocolBuffer, protocolBufferActive,
                   openVars, sendVars, closeVars, envVars>>
    /\ UNCHANGED <<routed, connVars>>

\* ------------------------------------------------------------- session.close
\* The finally block of close() (lines 235-240).
Teardown ==
    /\ sessionOnData' = "null"
    /\ busy' = "null"
    /\ protocolBuffer' = <<>>
    /\ protocolBufferActive' = FALSE

\* close() has settled: the caller drops the handle and with it the values the
\* handle's closures captured, unless a send() of the handle is still running
\* and holds them.
Release(t) ==
    /\ handle' = [handle EXCEPT ![t] = "closed"]
    /\ rawPrompt' = [rawPrompt EXCEPT ![t] = <<>>]
    /\ response' = [response EXCEPT ![t] = <<>>]
    /\ windowBytes' = [windowBytes EXCEPT ![t] = <<>>]
    /\ initFlow' = [initFlow EXCEPT ![t] = <<>>]
    /\ IF spc[t] = "idle" THEN
           /\ useRawPaste' = [useRawPaste EXCEPT ![t] = FALSE]
           /\ windowSize' = [windowSize EXCEPT ![t] = 0]
           /\ text' = [text EXCEPT ![t] = <<>>]
           /\ offset' = [offset EXCEPT ![t] = 0]
           /\ remaining' = [remaining EXCEPT ![t] = 0]
       ELSE UNCHANGED <<useRawPaste, windowSize, text, offset, remaining>>

\* close() is called and waits 100 ms (lines 224-226).
close(t) ==
    /\ handle[t] = "open" /\ cpc[t] = "idle" /\ spc[t] = "idle"
    /\ cpc' = [cpc EXCEPT ![t] = "c_drain"]
    /\ cres' = [cres EXCEPT ![t] = "pending"]
    /\ UNCHANGED <<storeVars, openVars, sendVars, envVars>>
    /\ UNCHANGED <<routed, connVars>>

\* The drain delay is over (lines 230-233): the active flag is cleared and the
\* write of the exit byte is started.
Drained(t) ==
    /\ cpc[t] = "c_drain"
    /\ sessionActive' = FALSE
    /\ cpc' = [cpc EXCEPT ![t] = "c_exit"]
    /\ UNCHANGED <<port, busy, sessionOnData, protocolBuffer, protocolBufferActive,
                   openVars, sendVars, cres, envVars>>
    /\ UNCHANGED <<routed, connVars>>

\* The write of 0x02 settles (lines 233-240): on success the 50 ms settle delay
\* starts, on failure the finally block runs and close() rejects.
ExitWritten(t, ok) ==
    /\ cpc[t] = "c_exit"
    /\ IF ok THEN
           /\ wire' = wire \o Written(t, ExitRaw)
           /\ dev' = Stimulus("exit", ExitRaw)
           /\ cpc' = [cpc EXCEPT ![t] = "c_settle"]
           /\ UNCHANGED <<busy, sessionOnData, protocolBuffer, protocolBufferActive,
                          cres, handle, useRawPaste, windowSize, rawPrompt, response,
                          windowBytes, initFlow, text, offset, remaining>>
       ELSE
           /\ Teardown
           /\ cpc' = [cpc EXCEPT ![t] = "idle"]
           /\ cres' = [cres EXCEPT ![t] = "rejected"]
           /\ Release(t)
           /\ UNCHANGED <<wire, dev>>
    /\ UNCHANGED <<port, sessionActive, opc, ores, spc, sres, rx>>
    /\ UNCHANGED <<routed, connVars>>

\* The settle delay is over: the finally block runs and close() resolves.
Settled(t) ==
    /\ cpc[t] = "c_settle"
    /\ Teardown
    /\ cpc' = [cpc EXCEPT ![t] = "idle"]
    /\ cres' = [cres EXCEPT ![t] = "resolved"]
    /\ Release(t)
    /\ UNCHANGED <<port, sessionActive, opc, ores, spc, sres, envVars>>
    /\ UNCHANGED <<routed, connVars>>

\* ------------------------------------------------------------- console shell
ConsoleWrites == Cardinality({i \in 1..Len(wire) : wire[i].by = "console"})

\* getConsoleShell().send(text) without the test of the active flag.
consoleSendAlways(ok) ==
    /\ port
    /\ ConsoleWrites < MaxConsole
    /\ wire' = IF ~ok \/ WriterLocked THEN wire ELSE wire \o Written("console", <<13>>)
    /\ UNCHANGED <<storeVars, openVars, sendVars, closeVars, dev, rx>>
    /\ UNCHANGED <<routed, connVars>>

\* getConsoleShell().send(text) for a key press (lines 104-107): dropped while a
\* session is active, written otherwise, unless writeRaw fails or finds the
\* stream locked.
consoleSend(ok) ==
    /\ port
    /\ ConsoleWrites < MaxConsole
    /\ wire' = IF sessionActive \/ ~ok \/ WriterLocked
               THEN wire
               ELSE wire \o Written("console", <<13>>)
    /\ UNCHANGED <<storeVars, openVars, sendVars, closeVars, dev, rx>>
    /\ UNCHANGED <<routed, connVars>>

\* ------------------------------------------------------------- specification
\* The payload the callers send: "abc", longer than the window the device
\* answers the probe with.
Payloads == {<<97, 98, 99>>}

Next ==
    \/ \E ok \in BOOLEAN : connect(ok)
    \/ startReading
    \/ \E s \in Answers(dev) : DeviceAnswer(s)
    \/ \E ok \in BOOLEAN : consoleSend(ok)
    \/ \E t \in Tasks :
        \/ openSession(t)
        \/ \E ok \in BOOLEAN : EnterWritten(t, ok)
        \/ PromptTaken(t)
        \/ PromptTimeout(t)
        \/ \E ok \in BOOLEAN : ProbeWritten(t, ok)
        \/ ResponseTaken(t)
        \/ ResponseTimeout(t)
        \/ WindowTaken(t)
        \/ WindowTimeout(t)
        \/ InitialFlowTaken(t)
        \/ InitialFlowTimeout(t)
        \/ LegacyTaken(t)
        \/ LegacyTimeout(t)
        \/ \E p \in Payloads : SendCall(t, p)
        \/ \E ok \in BOOLEAN : ChunkWritten(t, ok)
        \/ FlowTaken(t)
        \/ FlowTimeout(t)
        \/ \E ok \in BOOLEAN : EndWritten(t, ok)
        \/ AckSettled(t)
        \/ \E ok \in BOOLEAN : TextWritten(t, ok)
        \/ \E ok \in BOOLEAN : PlainEndWritten(t, ok)
        \/ onData(t)
        \/ close(t)
        \/ Drained(t)
        \/ \E ok \in BOOLEAN : ExitWritten(t, ok)
        \/ Settled(t)

Spec == Init /\ [][Next]_vars


\* ------------------------------------------------------------- negotiation alone
\* Window bytes a device may announce: every bit pattern of interest in a byte.
ByteSamples == {0, 1, 2, 64, 127, 128, 255}

\* A device that answers the probe with every outcome the negotiation tells
\* apart: the acknowledgement followed by two window bytes and a flow-control
\* byte, the decline, the legacy prefix with or without the rest of its prompt,
\* other byte pairs, a single byte, or nothing.
ProbeAnswers ==
    {<<AckPair, <<b0, b1>>, <<1>>>> : b0 \in ByteSamples, b1 \in ByteSamples}
    \cup {<<>>, <<DeclinePair>>, <<LegacyPair, LegacyRestChunk>>, <<LegacyPair>>,
          <<OtherPair>>, <<<<82, 2>>>>, <<<<1, 82>>>>, <<<<114, 98>>>>, <<<<82>>>>}

NegAnswers(kind) ==
    CASE kind = "enter" -> {<<>>, <<PromptChunk>>, <<BadPromptChunk>>}
      [] kind = "probe" -> ProbeAnswers
      [] OTHER -> {}

\* One caller negotiates over a transport whose writes succeed.
NextNeg ==
    \/ connect(TRUE)
    \/ startReading
    \/ \E s \in NegAnswers(dev) : DeviceAnswer(s)
    \/ openSession("run")
    \/ EnterWritten("run", TRUE)
    \/ PromptTaken("run")
    \/ PromptTimeout("run")
    \/ ProbeWritten("run", TRUE)
    \/ ResponseTaken("run")
    \/ ResponseTimeout("run")
    \/ WindowTaken("run")
    \/ WindowTimeout("run")
    \/ InitialFlowTaken("run")
    \/ InitialFlowTimeout("run")
    \/ LegacyTaken("run")
    \/ LegacyTimeout("run")

SpecNeg == Init /\ [][NextNeg]_vars

\* ------------------------------------------------------------- negotiation, fair
\* The steps of the openSession coroutine of the caller that need nothing from
\* the device: a write completes, or the deadline of a wait passes.
OpenTimers ==
    \/ EnterWritten("run", TRUE)
    \/ PromptTimeout("run")
    \/ ProbeWritten("run", TRUE)
    \/ ResponseTimeout("run")
    \/ WindowTimeout("run")
    \/ InitialFlowTimeout("run")
    \/ LegacyTimeout("run")

\* Writes complete and deadlines pass: a wait ends with what it waited for or,
\* at the latest, with its deadline.  The device is free to stay silent.
SpecNegFair == Init /\ [][NextNeg]_vars /\ WF_vars(OpenTimers)

\* ------------------------------------------------------------- the accumulator
\* What a device may put before and after its raw prompt: a byte that is no
\* valid text (0xFF), a two-byte character ("é"), a byte order mark, and a line
\* feed after the '>'.
NoisyPrompts ==
    {<<255>> \o PromptChunk \o <<10>>,
     <<195, 169>> \o PromptChunk \o <<10>>,
     <<239, 187, 191>> \o PromptChunk,
     PromptChunk \o <<10>>}

TakeAnswers(kind) ==
    CASE kind = "enter" -> NegAnswers("enter") \cup {<<c>> : c \in NoisyPrompts}
      [] kind = "probe" -> {<<>>, <<AckPair, <<2, 0>>, <<1>>>>, <<DeclinePair>>,
                            <<LegacyPair, LegacyRestChunk>>, <<<<82>>>>}
      [] OTHER -> {}

\* One caller negotiates with a device whose output is not all plain text.
NextTake ==
    \/ connect(TRUE)
    \/ startReading
    \/ \E s \in TakeAnswers(dev) : DeviceAnswer(s)
    \/ openSession("run")
    \/ EnterWritten("run", TRUE)
    \/ PromptTaken("run")
    \/ PromptTimeout("run")
    \/ ProbeWritten("run", TRUE)
    \/ ResponseTaken("run")
    \/ ResponseTimeout("run")
    \/ WindowTaken("run")
    \/ WindowTimeout("run")
    \/ InitialFlowTaken("run")
    \/ InitialFlowTimeout("run")
    \/ LegacyTaken("run")
    \/ LegacyTimeout("run")

SpecTake == Init /\ [][NextTake]_vars

\* ------------------------------------------------------------- one run
\* What runCode sends: "abc" and "aé", both longer than one window of the device.
RunPayloads == {<<97, 98, 99>>, <<97, 233>>}

\* A device that follows the protocol or stays silent: it never aborts a
\* transfer and sends no byte the protocol does not know.
RunAnswers(kind) ==
    CASE kind = "data" -> {<<>>, <<<<1>>>>}
      [] OTHER -> Answers(kind)

\* runCode from connect() to the end of close(), over a transport whose writes
\* succeed.
NextRun ==
    \/ connect(TRUE)
    \/ startReading
    \/ \E s \in RunAnswers(dev) : DeviceAnswer(s)
    \/ openSession("run")
    \/ EnterWritten("run", TRUE)
    \/ PromptTaken("run")
    \/ PromptTimeout("run")
    \/ ProbeWritten("run", TRUE)
    \/ ResponseTaken("run")
    \/ ResponseTimeout("run")
    \/ WindowTaken("run")
    \/ WindowTimeout("run")
    \/ InitialFlowTaken("run")
    \/ InitialFlowTimeout("run")
    \/ LegacyTaken("run")
    \/ LegacyTimeout("run")
    \/ \E p \in RunPayloads : SendCall("run", p)
    \/ ChunkWritten("run", TRUE)
    \/ FlowTaken("run")
    \/ FlowTimeout("run")
    \/ EndWritten("run", TRUE)
    \/ AckSettled("run")
    \/ TextWritten("run", TRUE)
    \/ PlainEndWritten("run", TRUE)
    \/ close("run")
    \/ Drained("run")
    \/ ExitWritten("run", TRUE)
    \/ Settled("run")

SpecRun == Init /\ [][NextRun]_vars

\* ------------------------------------------------------------- connect, step by step
\* The catch block of connect() (lines 266-269): the error is logged, port.value
\* is set to null and connect() returns normally.
ConnectFails ==
    /\ port' = FALSE
    /\ kpc' = "idle"
    /\ kres' = "resolved"

\* connect() is called and asks for a port (line 248); the record of the wire
\* starts afresh.  It is called while no session call is under way.
connectCall ==
    /\ kpc = "idle" /\ dpc = "idle"
    /\ \A t \in Tasks : opc[t] = "idle" /\ spc[t] = "idle" /\ cpc[t] = "idle"
    /\ kpc' = "k_request"
    /\ kres' = "pending"
    /\ wire' = <<>>
    /\ UNCHANGED <<storeVars, openVars, sendVars, closeVars, dev, rx, routed,
                   dpc, transport, currentReader, reading, lost>>

\* requestPort() settles (line 248): its result is assigned to port.value before
\* the port is opened.
PortRequested(ok) ==
    /\ kpc = "k_request"
    /\ IF ok THEN port' = TRUE /\ kpc' = "k_open" /\ UNCHANGED kres
       ELSE ConnectFails
    /\ UNCHANGED <<busy, sessionActive, sessionOnData, protocolBuffer, protocolBufferActive,
                   openVars, sendVars, closeVars, envVars, routed,
                   dpc, transport, currentReader, reading, lost>>

\* port.open() settles (lines 249-255); it fails on a port that is open already.
PortOpened(ok) ==
    /\ kpc = "k_open"
    /\ ok => ~transport
    /\ IF ok THEN transport' = TRUE /\ kpc' = "k_signals" /\ UNCHANGED <<port, kres>>
       ELSE ConnectFails /\ UNCHANGED transport
    /\ UNCHANGED <<busy, sessionActive, sessionOnData, protocolBuffer, protocolBufferActive,
                   openVars, sendVars, closeVars, envVars, routed,
                   dpc, currentReader, reading, lost>>

\* setSignals() settles (line 256) and the 100 ms delay starts.
SignalsSet(ok) ==
    /\ kpc = "k_signals"
    /\ IF ok THEN kpc' = "k_settle" /\ UNCHANGED <<port, kres>>
       ELSE ConnectFails
    /\ UNCHANGED <<busy, sessionActive, sessionOnData, protocolBuffer, protocolBufferActive,
                   openVars, sendVars, closeVars, envVars, routed,
                   dpc, transport, currentReader, reading, lost>>

\* The delay is over and startReading() is called without being awaited (lines
\* 257-260, 37-39): it takes the reader unless the stream is locked by a loop
\* that runs already; then the 200 ms delay and the write of 0x03 start.
LoopStarted ==
    /\ kpc = "k_settle"
    /\ IF port /\ transport /\ ~reading
       THEN reading' = TRUE /\ currentReader' = "cur"
       ELSE UNCHANGED <<reading, currentReader>>
    /\ kpc' = "k_int"
    /\ UNCHANGED <<storeVars, openVars, sendVars, closeVars, envVars, routed,
                   kres, dpc, transport, lost>>

\* The wake sequence with the soft reset sent before the interrupt.
WakeBytesResetFirst(pc) ==
    CASE pc = "k_int" -> EndOfData
      [] pc = "k_eod" -> Interrupt
      [] pc = "k_crlf" -> <<13, 10>>

\* The bytes of the wake sequence written at each position (lines 261-265).
WakeBytes(pc) ==
    CASE pc = "k_int" -> Interrupt
      [] pc = "k_eod" -> EndOfData
      [] pc = "k_crlf" -> <<13, 10>>

\* The position after each wake write.
WakeNext(pc) ==
    CASE pc = "k_int" -> "k_eod"
      [] pc = "k_eod" -> "k_crlf"
      [] pc = "k_crlf" -> "idle"

\* One write of the wake sequence settles (lines 261-265); after the last one
\* connect() returns.
WakeWritten(ok) ==
    /\ kpc \in {"k_int", "k_eod", "k_crlf"}
    /\ IF ok THEN
           /\ wire' = wire \o Written("connect", WakeBytes(kpc))
           /\ kpc' = WakeNext(kpc)
           /\ kres' = IF kpc = "k_crlf" THEN "resolved" ELSE kres
           /\ UNCHANGED port
       ELSE
           /\ ConnectFails
           /\ UNCHANGED wire
    /\ UNCHANGED <<busy, sessionActive, sessionOnData, protocolBuffer, protocolBufferActive,
                   openVars, sendVars, closeVars, dev, rx, routed,
                   dpc, transport, currentReader, reading, lost>>

\* ------------------------------------------------------------- disconnect
\* The assignments at the end of disconnect() (lines 279-282).
DisconnectClears ==
    /\ port' = FALSE
    /\ busy' = "null"
    /\ sessionOnData' = "null"
    /\ sessionActive' = FALSE
    /\ UNCHANGED <<protocolBuffer, protocolBufferActive>>

\* disconnect() going straight to port.close(), without cancelling the reader.
disconnectCallNoCancel ==
    /\ dpc = "idle" /\ kpc = "idle"
    /\ dpc' = IF ~port THEN "idle" ELSE "d_close"
    /\ UNCHANGED <<storeVars, openVars, sendVars, closeVars, envVars, routed,
                   kpc, kres, transport, currentReader, reading, lost>>

\* disconnect() is called (lines 272-275): without a port it returns at once;
\* otherwise it cancels the current reader, if any, or goes on to close the port.
disconnectCall ==
    /\ dpc = "idle" /\ kpc = "idle"
    /\ dpc' = IF ~port THEN "idle" ELSE IF currentReader # "null" THEN "d_cancel" ELSE "d_close"
    /\ UNCHANGED <<storeVars, openVars, sendVars, closeVars, envVars, routed,
                   kpc, kres, transport, currentReader, reading, lost>>

\* The handle after the cleanup of a read loop that clears it without looking
\* whose reader it holds.
ClearedAlways(whose) == "null"

\* The handle after the finally block of the read loop that holds the reader
\* whose (lines 63-66): cleared only if it still holds that reader.
ClearedBy(whose) == IF currentReader = whose THEN "null" ELSE currentReader

\* currentReader.cancel() settles (lines 275-276), its error being ignored.  A
\* cancel closes the stream before anything that can fail, so the pending read
\* of the loop that holds the reader returns done and the loop ends, whether
\* the cancel then resolves or rejects; the handle is cleared in either case.
ReaderCancelled(ok) ==
    /\ dpc = "d_cancel"
    /\ currentReader' = "null"
    /\ reading' = IF currentReader = "cur" THEN FALSE ELSE reading
    /\ lost' = IF currentReader = "lost" THEN "ended" ELSE lost
    /\ dpc' = "d_close"
    /\ UNCHANGED <<storeVars, openVars, sendVars, closeVars, envVars, routed,
                   kpc, kres, transport>>

\* port.close() settles (lines 278-282), its error being ignored; it fails while
\* a read loop still holds the reader.  What the device had sent to a port
\* that is closed is gone.
PortClosed(ok) ==
    /\ dpc = "d_close"
    /\ ok => ~reading
    /\ transport' = IF ok THEN FALSE ELSE transport
    /\ rx' = IF ok THEN <<>> ELSE rx
    /\ dev' = IF ok THEN "none" ELSE dev
    /\ DisconnectClears
    /\ dpc' = "idle"
    /\ UNCHANGED <<openVars, sendVars, closeVars, wire, routed,
                   kpc, kres, currentReader, reading, lost>>

\* ------------------------------------------------------------- two ports
\* requestPort() resolves with a port other than the one the engine has open
\* (line 248): the handle is replaced, the port that is open stays open and its
\* read loop keeps running; currentReader still holds the reader of that loop.
OtherPortRequested ==
    /\ kpc = "k_request"
    /\ transport /\ lost = "none"
    /\ port' = TRUE
    /\ kpc' = "k_open"
    /\ lost' = IF reading THEN "reading" ELSE "open"
    /\ transport' = FALSE
    /\ reading' = FALSE
    /\ currentReader' = IF currentReader = "cur" THEN "lost" ELSE currentReader
    /\ rx' = <<>>
    /\ dev' = "none"
    /\ UNCHANGED <<busy, sessionActive, sessionOnData, protocolBuffer, protocolBufferActive,
                   openVars, sendVars, closeVars, wire, routed, kres, dpc>>

\* The read loop on the lost port ends, its device being unplugged (lines 59-66).
LostLoopEnds ==
    /\ lost = "reading"
    /\ lost' = "ended"
    /\ currentReader' = ClearedBy("lost")
    /\ UNCHANGED <<storeVars, openVars, sendVars, closeVars, envVars, routed,
                   kpc, kres, dpc, transport, reading>>

\* Connections made and taken down step by step, the user picking the same port
\* or another one, while the console sends.
NextLoop ==
    \/ connectCall
    \/ \E ok \in BOOLEAN : PortRequested(ok)
    \/ OtherPortRequested
    \/ \E ok \in BOOLEAN : PortOpened(ok)
    \/ \E ok \in BOOLEAN : SignalsSet(ok)
    \/ LoopStarted
    \/ \E ok \in BOOLEAN : WakeWritten(ok)
    \/ disconnectCall
    \/ \E ok \in BOOLEAN : ReaderCancelled(ok)
    \/ \E ok \in BOOLEAN : PortClosed(ok)
    \/ LostLoopEnds
    \/ \E ok \in BOOLEAN : consoleSend(ok)

SpecLoop == Init /\ [][NextLoop]_vars

\* One caller runs sessions while the connection is made and taken down step by
\* step; the writes of the session succeed.
NextConn ==
    \/ connectCall
    \/ \E ok \in BOOLEAN : PortRequested(ok)
    \/ \E ok \in BOOLEAN : PortOpened(ok)
    \/ \E ok \in BOOLEAN : SignalsSet(ok)
    \/ LoopStarted
    \/ \E ok \in BOOLEAN : WakeWritten(ok)
    \/ disconnectCall
    \/ \E ok \in BOOLEAN : ReaderCancelled(ok)
    \/ \E ok \in BOOLEAN : PortClosed(ok)
    \/ startReading
    \/ \E s \in RunAnswers(dev) : DeviceAnswer(s)
    \/ openSession("run")
    \/ EnterWritten("run", TRUE)
    \/ PromptTaken("run")
    \/ PromptTimeout("run")
    \/ ProbeWritten("run", TRUE)
    \/ ResponseTaken("run")
    \/ ResponseTimeout("run")
    \/ WindowTaken("run")
    \/ WindowTimeout("run")
    \/ InitialFlowTaken("run")
    \/ InitialFlowTimeout("run")
    \/ LegacyTaken("run")
    \/ LegacyTimeout("run")
    \/ \E p \in Payloads : SendCall("run", p)
    \/ ChunkWritten("run", TRUE)
    \/ FlowTaken("run")
    \/ FlowTimeout("run")
    \/ EndWritten("run", TRUE)
    \/ AckSettled("run")
    \/ TextWritten("run", TRUE)
    \/ PlainEndWritten("run", TRUE)
    \/ close("run")
    \/ Drained("run")
    \/ ExitWritten("run", TRUE)
    \/ Settled("run")

SpecConn == Init /\ [][NextConn]_vars

\* ------------------------------------------------------------- raw-paste transfer
\* Payloads of the transfer: empty, ASCII of several lengths, and texts with a
\* two-byte character ("é", "aé").
TransferPayloads ==
    {<<>>, <<97>>, <<97, 98, 99>>, <<97, 98, 99, 100, 101>>, <<233>>, <<97, 233>>}

\* The state after connect() and a negotiation in which the device acknowledged
\* raw paste with the window bytes <<w, 0>> and an initial flow-control byte.
InitSend ==
    /\ port = TRUE
    /\ busy = "run"
    /\ sessionActive = TRUE
    /\ sessionOnData = "null"
    /\ protocolBuffer = <<>>
    /\ protocolBufferActive = FALSE
    /\ opc = [t \in Tasks |-> "idle"]
    /\ ores = [t \in Tasks |-> IF t = "run" THEN "resolved" ELSE "none"]
    /\ handle = [t \in Tasks |-> IF t = "run" THEN "open" ELSE "none"]
    /\ useRawPaste = [t \in Tasks |-> t = "run"]
    /\ \E w \in 0..MaxWindow :
        /\ windowSize = [t \in Tasks |-> IF t = "run" THEN WindowSizeOf(w, 0) ELSE 0]
        /\ windowBytes = [t \in Tasks |-> IF t = "run" THEN <<w, 0>> ELSE <<>>]
    /\ rawPrompt = [t \in Tasks |-> IF t = "run" THEN Decode(PromptChunk) ELSE <<>>]
    /\ response = [t \in Tasks |-> IF t = "run" THEN AckPair ELSE <<>>]
    /\ initFlow = [t \in Tasks |-> IF t = "run" THEN <<1>> ELSE <<>>]
    /\ spc = [t \in Tasks |-> "idle"]
    /\ sres = [t \in Tasks |-> "none"]
    /\ text = [t \in Tasks |-> <<>>]
    /\ offset = [t \in Tasks |-> 0]
    /\ remaining = [t \in Tasks |-> 0]
    /\ cpc = [t \in Tasks |-> "idle"]
    /\ cres = [t \in Tasks |-> "none"]
    /\ wire = <<[by |-> "run", bytes |-> EnterRaw], [by |-> "run", bytes |-> Probe]>>
    /\ dev = "none"
    /\ rx = <<>>
    /\ routed = "none"
    /\ kpc = "idle"
    /\ kres = "resolved"
    /\ dpc = "idle"
    /\ transport = TRUE
    /\ currentReader = "cur"
    /\ reading = TRUE
    /\ lost = "none"

\* A device that answers every wait of the sender: flow-continue 0x01 whenever
\* send waits for a flow-control byte, 0x04 when it waits for the acknowledgement.
DeviceContinues ==
    /\ \E t \in Tasks : spc[t] = "s_flow"
    /\ rx = <<>> /\ protocolBuffer = <<>>
    /\ rx' = <<<<1>>>>
    /\ UNCHANGED <<storeVars, openVars, sendVars, closeVars, wire, dev>>
    /\ UNCHANGED <<routed, connVars>>

DeviceAcknowledges ==
    /\ \E t \in Tasks : spc[t] = "s_ack"
    /\ rx = <<>> /\ protocolBuffer = <<>>
    /\ rx' = <<EndOfData>>
    /\ UNCHANGED <<storeVars, openVars, sendVars, closeVars, wire, dev>>
    /\ UNCHANGED <<routed, connVars>>

\* One raw-paste send over a transport whose writes succeed, to a device that
\* answers in time (no take times out while the answer is on its way).
NextSend ==
    \/ \E p \in TransferPayloads : SendCall("run", p)
    \/ ChunkWritten("run", TRUE)
    \/ FlowTaken("run")
    \/ EndWritten("run", TRUE)
    \/ spc["run"] = "s_ack" /\ readBytesReady(1) /\ AckSettled("run")
    \/ startReading
    \/ DeviceContinues
    \/ DeviceAcknowledges

SpecSend == InitSend /\ [][NextSend]_vars

\* The event loop keeps running the coroutines and the device keeps answering.
SpecSendFair == InitSend /\ [][NextSend]_vars /\ WF_vars(NextSend)


\* ------------------------------------------------------------- flow control
\* The steps of the send coroutine of the caller, its writes succeeding.
SendStep ==
    \/ ChunkWritten("run", TRUE)
    \/ FlowTaken("run")
    \/ FlowTimeout("run")
    \/ EndWritten("run", TRUE)
    \/ AckSettled("run")

\* One raw-paste send over a transport whose writes succeed, to a device that
\* answers a window with 0x01, with 0x04, with another byte or not at all, and
\* the end of data with 0x04 or not at all; every take may time out.
NextFlow ==
    \/ \E p \in TransferPayloads : SendCall("run", p)
    \/ SendStep
    \/ startReading
    \/ \E s \in Answers(dev) : DeviceAnswer(s)

SpecFlow == InitSend /\ [][NextFlow]_vars

\* The event loop keeps running the send coroutine, whose timers expire, and
\* the read loop; the device is free to stay silent.
SpecFlowFair == InitSend /\ [][NextFlow]_vars /\ WF_vars(SendStep) /\ WF_vars(startReading)

\* ------------------------------------------------------------- window grants
\* One raw-paste send over a transport whose writes succeed, to a device that
\* follows the protocol and answers in time: it sends 0x01 each time it has
\* received a full window, whether more payload follows or not, and 0x04 after
\* the end-of-data byte.  No take times out.
NextGrant ==
    \/ \E p \in TransferPayloads : SendCall("run", p)
    \/ ChunkWritten("run", TRUE)
    \/ FlowTaken("run")
    \/ EndWritten("run", TRUE)
    \/ spc["run"] = "s_ack" /\ readBytesReady(1) /\ AckSettled("run")
    \/ startReading
    \/ dev = "data" /\ windowSize["run"] > 0 /\ remaining["run"] = 0 /\ DeviceAnswer(<<<<1>>>>)
    \/ dev = "eod" /\ DeviceAnswer(<<EndOfData>>)

SpecGrant == InitSend /\ [][NextGrant]_vars

\* ------------------------------------------------------------- stale handles
\* The most exit bytes one caller leaves on the wire before it stops calling
\* close() again.
MaxExits == 1

ExitWrites(t) ==
    Cardinality({i \in 1..Len(wire) : wire[i] = [by |-> t, bytes |-> ExitRaw]})

\* close() is called again on a handle whose close() has settled: close() has
\* no test of the handle's state (lines 223-226).
closeAgain(t) ==
    /\ handle[t] = "closed" /\ cpc[t] = "idle" /\ opc[t] = "idle"
    /\ ExitWrites(t) <= MaxExits
    /\ cpc' = [cpc EXCEPT ![t] = "c_drain"]
    /\ cres' = [cres EXCEPT ![t] = "pending"]
    /\ UNCHANGED <<storeVars, openVars, sendVars, envVars>>
    /\ UNCHANGED <<routed, connVars>>

\* A device that answers the enter byte with the raw prompt or not at all,
\* declines the raw-paste probe and is silent after the exit byte.
StaleAnswers(kind) ==
    CASE kind = "enter" -> {<<PromptChunk>>}
      [] kind = "probe" -> {<<DeclinePair>>}
      [] OTHER -> {}

\* Two callers, sessions without transfers, and a connection that is closed
\* by disconnect() and opened again by connect().
NextStale ==
    \/ connect(TRUE)
    \/ disconnectCall
    \/ ReaderCancelled(TRUE)
    \/ PortClosed(TRUE)
    \/ startReading
    \/ \E s \in StaleAnswers(dev) : DeviceAnswer(s)
    \/ \E t \in Tasks :
        \/ openSession(t)
        \/ EnterWritten(t, TRUE)
        \/ PromptTaken(t)
        \/ PromptTimeout(t)
        \/ ProbeWritten(t, TRUE)
        \/ ResponseTaken(t)
        \/ close(t)
        \/ closeAgain(t)
        \/ Drained(t)
        \/ ExitWritten(t, TRUE)
        \/ Settled(t)

SpecStale == Init /\ [][NextStale]_vars

\* ------------------------------------------------------------- close during send
\* close() is called while send() of the same handle is waiting for a
\* flow-control byte or for the acknowledgement: close() has no test of what
\* the handle is doing (lines 223-226).
closeInFlight(t) ==
    /\ handle[t] = "open" /\ cpc[t] = "idle" /\ spc[t] \in {"s_flow", "s_ack"}
    /\ cpc' = [cpc EXCEPT ![t] = "c_drain"]
    /\ cres' = [cres EXCEPT ![t] = "pending"]
    /\ UNCHANGED <<storeVars, openVars, sendVars, envVars>>
    /\ UNCHANGED <<routed, connVars>>

\* One raw-paste send that the caller does not wait for: close() may be called
\* before the send, after it, or while it waits for a byte of the device.
NextAbandon ==
    \/ \E p \in TransferPayloads : SendCall("run", p)
    \/ SendStep
    \/ close("run")
    \/ closeInFlight("run")
    \/ Drained("run")
    \/ ExitWritten("run", TRUE)
    \/ Settled("run")
    \/ startReading
    \/ \E s \in Answers(dev) : DeviceAnswer(s)

SpecAbandon == InitSend /\ [][NextAbandon]_vars

\* ------------------------------------------------------------- properties
\* The step in which caller t's openSession call runs its guards.
OpenCalled(t) == opc[t] = "idle" /\ (ores'[t] # ores[t] \/ opc'[t] # "idle")

\* openSession settles with a rejection from inside its try block.
OpenRejects(t) ==
    \/ opc[t] \in NegPcs /\ opc'[t] = "idle" /\ ores'[t] # "resolved"
    \/ opc[t] = "idle" /\ ores[t] # "WriterLocked" /\ ores'[t] = "WriterLocked"

\* close() settles, resolving or rejecting.
CloseSettles(t) == cpc[t] # "idle" /\ cpc'[t] = "idle"

\* send settles with a rejection.
SendRejects(t) == spc[t] # "idle" /\ spc'[t] = "idle" /\ sres'[t] = "rejected"

\* The writes of caller t the transport saw, in order.
WritesOf(t) == SelectSeq(wire, LAMBDA e : e.by = t)

RECURSIVE Flatten(_)
\* The bytes of a sequence of writes, concatenated.
Flatten(ws) == IF ws = <<>> THEN <<>> ELSE Head(ws).bytes \o Flatten(Tail(ws))

\* The payload writes of a session that has sent: those after the enter-raw byte
\* and the probe and before the final end-of-data byte.
PayloadWrites(t) == SubSeq(WritesOf(t), 3, Len(WritesOf(t)) - 1)

\* C1: at every moment at most one session is live (Negotiating, Active or
\* Closing) on the connection.
C1_AtMostOneLive == Cardinality({t \in Tasks : Live(t)}) <= 1

\* C2: an openSession call made while another caller's session has been opened
\* and close() has not been called on it is rejected with SessionAlreadyActive
\* and leaves busy, sessionActive, the capture flag, the protocol buffer and the
\* session callback as they were, and the other session's handle as it was.
C2_SecondOpenRejected ==
    [][\A t \in Tasks :
        (OpenCalled(t) /\ \E u \in Tasks \ {t} : Negotiating(u) \/ Active(u))
        => /\ ores'[t] = "SessionAlreadyActive"
           /\ opc'[t] = "idle"
           /\ busy' = busy
           /\ sessionActive' = sessionActive
           /\ protocolBufferActive' = protocolBufferActive
           /\ protocolBuffer' = protocolBuffer
           /\ sessionOnData' = sessionOnData
           /\ handle' = handle
           /\ useRawPaste' = useRawPaste
           /\ windowSize' = windowSize]_vars

\* C2: the second caller has been rejected while the first holds its session.
C2_Witness ==
    /\ ores["sync"] = "SessionAlreadyActive"
    /\ Active("run") /\ sessionActive /\ busy = "run" /\ sessionOnData = "run"

\* C3: the guard is checked and set in one step: never two callers negotiate at
\* once, a call made while no session is live passes the guard, and a call made
\* while another caller negotiates is rejected with SessionAlreadyActive and
\* starts no negotiation.
C3_GuardAtomic ==
    /\ [](Cardinality({t \in Tasks : Negotiating(t)}) <= 1)
    /\ [][\A t \in Tasks :
            OpenCalled(t) =>
                /\ (port /\ \A u \in Tasks : ~Live(u)) => Negotiating(t)'
                /\ (\E u \in Tasks \ {t} : Negotiating(u))
                       => (ores'[t] = "SessionAlreadyActive" /\ opc'[t] = "idle")]_vars

\* C3: one caller negotiates and the other has been rejected.
C3_Witness == Negotiating("run") /\ ores["sync"] = "SessionAlreadyActive" /\ handle["sync"] = "none"

\* C4: when openSession rejects after its guards, at that moment capture is
\* disabled, no session is marked active and busy is null.
C4_RejectRollsBack ==
    [][\A t \in Tasks :
        OpenRejects(t) => (~protocolBufferActive' /\ ~sessionActive' /\ busy' = "null")]_vars

\* C4: one caller's negotiation failed for lack of the prompt, the other's on a
\* failed write after the prompt, and the engine is idle.
C4_Witness ==
    /\ ores["run"] = "Failed to enter raw REPL"
    /\ ores["sync"] = "WriteFailed" /\ rawPrompt["sync"] # <<>>
    /\ ~protocolBufferActive /\ ~sessionActive /\ busy = "null"

\* C5: when close() settles, resolved or rejected, busy is null, the session
\* callback is cleared, the protocol buffer is empty, capture is disabled and no
\* session is marked active.
C5_CloseReleases ==
    [][\A t \in Tasks :
        CloseSettles(t) =>
            /\ busy' = "null"
            /\ sessionOnData' = "null"
            /\ protocolBuffer' = <<>>
            /\ ~protocolBufferActive'
            /\ ~sessionActive']_vars

\* C6: when send rejects, capture is disabled at that moment, and the close()
\* that follows on the same session ends with busy null and no session active.
C6_SendFailureThenClose ==
    [][\A t \in Tasks :
        /\ SendRejects(t) => ~protocolBufferActive'
        /\ (CloseSettles(t) /\ sres[t] = "rejected")
               => (busy' = "null" /\ ~sessionActive')]_vars

\* C7: a raw-paste send with window W > 0 that has resolved wrote the encoded
\* payload, in chunks of at most W bytes, in order and without loss or
\* duplication, and then the end-of-data byte.
C7_PayloadIntact ==
    \A t \in Tasks :
        (sres[t] = "resolved" /\ useRawPaste[t] /\ windowSize[t] > 0) =>
            /\ Flatten(PayloadWrites(t)) = Encode(text[t])
            /\ \A i \in 1..Len(PayloadWrites(t)) :
                   Len(PayloadWrites(t)[i].bytes) <= windowSize[t]
            /\ WritesOf(t)[Len(WritesOf(t))].bytes = EndOfData

\* C8: with raw paste and a window of 0, a send of a non-empty payload to a
\* device that keeps answering 0x01 eventually has written all payload bytes
\* and the end-of-data byte and has resolved.
C8_ZeroWindowCompletes ==
    (spc["run"] # "idle" /\ useRawPaste["run"] /\ windowSize["run"] = 0 /\ text["run"] # <<>>)
        ~> (/\ sres["run"] = "resolved"
            /\ Flatten(PayloadWrites("run")) = Encode(text["run"]))

\* C9: when the probe answer is 0x52 0x01, two window bytes b0 b1 and a
\* flow-control byte, openSession resolves with useRawPaste and with
\* windowSize = b0 + 256 * b1, a value in 0..65535, and the flow-control byte
\* (the last byte of the answer) has left the accumulator.
C9_WindowLittleEndian ==
    \A t \in Tasks :
        (opc[t] = "idle" /\ response[t] = AckPair /\ windowBytes[t] # <<>> /\ initFlow[t] # <<>>)
        => /\ ores[t] = "resolved" /\ handle[t] = "open"
           /\ useRawPaste[t]
           /\ windowSize[t] = windowBytes[t][1] + 256 * windowBytes[t][2]
           /\ windowSize[t] \in 0..65535
           /\ initFlow[t] = <<1>>
           /\ protocolBuffer = <<>>

\* C9: the answer 0x52 0x01, 0x40 0x00, 0x01 gave a raw-paste session of window 64.
C9_Witness ==
    /\ handle["run"] = "open" /\ useRawPaste["run"]
    /\ windowBytes["run"] = <<64, 0>> /\ windowSize["run"] = 64
    /\ initFlow["run"] = <<1>>

\* C10: once the raw-REPL prompt has been read, openSession resolves, and with
\* useRawPaste = FALSE whenever the probe answer is not 0x52 0x01: a decline,
\* the legacy prefix, any other pair, or no answer in time.
C10_FallbackToPlain ==
    \A t \in Tasks :
        (opc[t] = "idle" /\ Includes(rawPrompt[t], RawReplText))
        => /\ ores[t] = "resolved" /\ handle[t] = "open"
           /\ (response[t] # AckPair => ~useRawPaste[t])
           /\ ~protocolBufferActive

\* C10: a legacy device's answer "ra" ended in a plain session.
C10_Witness ==
    /\ handle["run"] = "open" /\ response["run"] = LegacyPair /\ ~useRawPaste["run"]

\* The probe is among the writes of caller t the transport saw.
ProbeWrittenBy(t) == \E i \in 1..Len(wire) : wire[i].by = t /\ wire[i].bytes = Probe

\* C11: when the wait for '>' after the enter-raw byte ends, by a timeout or
\* with a text that does not contain "raw REPL", openSession rejects with
\* capture disabled, no session active and busy null, and it has not written
\* and never writes the probe.
C11_BadPromptRejects ==
    /\ [][\A t \in Tasks :
            (opc[t] = "n_prompt" /\ opc'[t] # "n_prompt"
                /\ ~Includes(rawPrompt'[t], RawReplText))
            => /\ opc'[t] = "idle"
               /\ ores'[t] = "Failed to enter raw REPL"
               /\ ~protocolBufferActive' /\ ~sessionActive' /\ busy' = "null"]_vars
    /\ [](\A t \in Tasks :
            ores[t] = "Failed to enter raw REPL" => ~ProbeWrittenBy(t))

\* C11: a device answered the enter-raw byte with a prompt that lacks the marker
\* text, and the call was rejected after that single write.
C11_Witness ==
    /\ ores["run"] = "Failed to enter raw REPL"
    /\ rawPrompt["run"] = Decode(BadPromptChunk)
    /\ WritesOf("run") = <<[by |-> "run", bytes |-> EnterRaw]>>
    /\ busy = "null" /\ ~sessionActive /\ ~protocolBufferActive

\* A wait of caller t at position pc ends in this step with the result res
\* (<<>> for null), of which bytes is the byte string.
TakeIsExact(t, pc, res, bytes) ==
    (opc[t] = pc /\ opc'[t] # pc) =>
        IF res = <<>> THEN protocolBuffer' = protocolBuffer
        ELSE bytes \o protocolBuffer' = protocolBuffer

\* C12: a readBytes or readUntil that times out returns null and leaves the
\* protocol buffer as it was; one that succeeds removes from the front of the
\* buffer exactly the bytes it returns; and the read loop appends at the end:
\* so the takes return the bytes in the order they were appended, each once.
C12_TakesKeepOrder ==
    [][/\ \A t \in Tasks :
            /\ TakeIsExact(t, "n_prompt", rawPrompt'[t], Encode(rawPrompt'[t]))
            /\ TakeIsExact(t, "n_resp", response'[t], response'[t])
            /\ TakeIsExact(t, "n_win", windowBytes'[t], windowBytes'[t])
            /\ TakeIsExact(t, "n_flow", initFlow'[t], initFlow'[t])
       /\ (rx # <<>> /\ rx' = Tail(rx) /\ protocolBufferActive)
              => protocolBuffer' = protocolBuffer \o Head(rx)]_vars

\* Caller t's session owns the wire: it has passed the guards and its close()
\* has not cleared the active flag yet.
OwnsWire(t) == Live(t) /\ cpc[t] \in {"idle", "c_drain"}

NewlyWritten == IF Len(wire') = Len(wire) + 1 THEN wire'[Len(wire')].bytes ELSE <<>>

\* C20: during a raw-paste send 0 <= remaining <= windowSize; each chunk write
\* puts at most remaining bytes on the wire and lowers remaining by that many
\* (so the bytes written since the last refill never exceed windowSize); and
\* remaining goes up only to windowSize and only when a 0x01 is taken from the
\* protocol buffer.
C20_WindowRespected ==
    /\ [](\A t \in Tasks : remaining[t] >= 0 /\ remaining[t] <= windowSize[t])
    /\ [][\A t \in Tasks :
            /\ (spc[t] = "s_chunk" /\ spc'[t] # "idle")
                   => /\ Len(NewlyWritten) <= remaining[t]
                      /\ remaining'[t] = remaining[t] - Len(NewlyWritten)
            /\ (spc[t] # "idle" /\ remaining'[t] > remaining[t])
                   => /\ spc[t] = "s_flow"
                      /\ protocolBuffer # <<>> /\ Head(protocolBuffer) = 1
                      /\ protocolBuffer' = Tail(protocolBuffer)
                      /\ remaining'[t] = windowSize[t]]_vars

\* C15: busy is non-null exactly while some session is Negotiating, Active or
\* Closing, and it carries the reason of a session that is.
C15_BusyMirrorsSession ==
    /\ (busy # "null") <=> (\E t \in Tasks : Live(t))
    /\ \A t \in Tasks : busy = t => Live(t)

\* The run of caller t is over: its send and its close() have resolved.
RunDone(t) == handle[t] = "closed" /\ sres[t] = "resolved" /\ cres[t] = "resolved"

\* The writes a run makes, in order, for the payload p sent in the given chunks.
RunWrites(t, chunks) ==
    <<[by |-> t, bytes |-> EnterRaw], [by |-> t, bytes |-> Probe]>>
    \o chunks
    \o <<[by |-> t, bytes |-> EndOfData], [by |-> t, bytes |-> ExitRaw]>>

\* C14: in the run connect, openSession, send, close, the transport sees the
\* enter-raw byte, the probe, the payload bytes, the end-of-data byte and the
\* exit-raw byte in this order and nothing after; busy is null when openSession
\* is called and null when close() has resolved.
C14_RunWriteOrder ==
    /\ [](RunDone("run") =>
            /\ Len(wire) >= 4
            /\ wire = RunWrites("run", SubSeq(wire, 3, Len(wire) - 2))
            /\ \E p \in RunPayloads :
                   Flatten(SubSeq(wire, 3, Len(wire) - 2)) = Encode(p))
    /\ [][(OpenCalled("run") /\ Negotiating("run")') => busy = "null"]_vars
    /\ [][(CloseSettles("run") /\ cres'["run"] = "resolved") => busy' = "null"]_vars

\* The read loop reads a chunk in this step (no step of connect() or
\* disconnect(), which may drop what a closed port had received).
ChunkRead == rx # <<>> /\ rx' = Tail(rx) /\ UNCHANGED connVars

\* C19: a chunk read goes to one destination chosen by the flags at the time
\* of the read: under capture to the protocol buffer, undecoded, and to no text
\* consumer; outside capture never to the buffer, but to the session consumer
\* if a session is active and to the console consumer otherwise; and the
\* console consumer gets no chunk while a session is Active.
C19_ChunkRoutedOnce ==
    [][ChunkRead =>
        /\ protocolBufferActive
               => (routed' = "buffer" /\ protocolBuffer' = protocolBuffer \o Head(rx))
        /\ ~protocolBufferActive
               => /\ protocolBuffer' = protocolBuffer
                  /\ sessionActive => routed' \in {"session", "nobody"}
                  /\ ~sessionActive => routed' = "console"
        /\ (\E t \in Tasks : Active(t)) => routed' # "console"]_vars

\* C19: the last chunk read went to the callback of an Active session, and the
\* protocol buffer did not take it.
C19_Witness ==
    /\ Active("run") /\ sessionOnData = "run" /\ ~protocolBufferActive
    /\ routed = "session" /\ protocolBuffer = <<>>

\* connect() ends in its catch block.
ConnectFailed == kpc # "idle" /\ kpc' = "idle" /\ ~port'

\* C16: when a step of connect() fails, the call rejects and nothing of the
\* connection stays behind: the handle is unset, the transport is closed and no
\* read loop runs.
C16_ConnectFailureClean ==
    [][ConnectFailed => kres' = "rejected" /\ ~port' /\ ~transport' /\ ~reading']_vars

\* disconnect() returns after having closed the port.
DisconnectReturns == dpc = "d_close" /\ dpc' = "idle"

\* C17: when disconnect() returns, busy is null, the session callback is null,
\* no session is marked active and capture is disabled; called without a
\* connection it starts nothing.
C17_DisconnectResets ==
    [][/\ DisconnectReturns =>
            /\ busy' = "null"
            /\ sessionOnData' = "null"
            /\ ~sessionActive'
            /\ ~protocolBufferActive'
       /\ (dpc = "idle" /\ ~port) => dpc' = "idle"]_vars

\* C18: an openSession issued while no connection exists, connect() still being
\* in progress included, is rejected with NotConnected and changes no shared
\* state.
C18_OpenNeedsConnection ==
    [][\A t \in Tasks :
        (OpenCalled(t) /\ (~port \/ kpc # "idle"))
        => /\ ores'[t] = "NotConnected"
           /\ opc'[t] = "idle"
           /\ UNCHANGED storeVars]_vars

\* The step in which send takes the flow-control byte b from the accumulator.
FlowByteTaken(t, b) ==
    /\ spc[t] = "s_flow" /\ spc'[t] # "s_flow"
    /\ protocolBuffer # <<>> /\ Head(protocolBuffer) = b
    /\ protocolBuffer' = Tail(protocolBuffer)

\* send is past its chunk loop: the end-of-data byte is being written or the
\* acknowledgement is awaited.
Ending(t) == spc[t] \in {"s_eod", "s_ack"}

\* C21: when the flow-control byte taken is 0x04, send leaves the chunk loop
\* with payload unsent and writes nothing more of it; from there its next write
\* is the single byte 0x04, after which it waits in capture mode, and the wait
\* ends with capture disabled, send resolved and nothing else written.
C21_AbortEndsTransfer ==
    [][\A t \in Tasks :
        /\ FlowByteTaken(t, 4) =>
               /\ spc'[t] = "s_eod"
               /\ wire' = wire
               /\ ~protocolBufferActive'
        /\ (Ending(t) /\ spc'[t] # spc[t]) =>
               IF spc[t] = "s_eod"
               THEN /\ wire' = wire \o <<[by |-> t, bytes |-> EndOfData]>>
                    /\ spc'[t] = "s_ack"
                    /\ protocolBufferActive'
               ELSE /\ wire' = wire
                    /\ spc'[t] = "idle"
                    /\ sres'[t] = "resolved"
                    /\ ~protocolBufferActive']_vars

\* A send that the device aborted with payload left has resolved: the wire ends
\* with the first window and the end-of-data byte.
C21_Witness ==
    /\ sres["run"] = "resolved" /\ windowSize["run"] = 2
    /\ text["run"] = <<97, 98, 99>>
    /\ WritesOf("run")[Len(WritesOf("run")) - 1].bytes = <<97, 98>>
    /\ WritesOf("run")[Len(WritesOf("run"))].bytes = EndOfData

\* C22: without raw paste, send(text) goes through exactly two writes, the
\* encoded text and then the byte 0x04, resolves with the second write without
\* waiting for the device, and none of its steps changes protocolBufferActive,
\* the accumulator, busy or sessionActive.
C22_PlainSendTwoWrites ==
    [][\A t \in Tasks :
        /\ (spc[t] = "idle" /\ spc'[t] # "idle" /\ ~useRawPaste[t]) =>
               /\ spc'[t] = "p_text"
               /\ wire' = wire
               /\ UNCHANGED <<protocolBufferActive, protocolBuffer, busy, sessionActive>>
        /\ (spc[t] = "p_text" /\ spc'[t] # "p_text") =>
               /\ spc'[t] = "p_eod"
               /\ wire' = wire \o <<[by |-> t, bytes |-> Encode(text[t])]>>
               /\ UNCHANGED <<protocolBufferActive, protocolBuffer, busy, sessionActive>>
        /\ (spc[t] = "p_eod" /\ spc'[t] # "p_eod") =>
               /\ spc'[t] = "idle"
               /\ sres'[t] = "resolved"
               /\ wire' = wire \o <<[by |-> t, bytes |-> EndOfData]>>
               /\ UNCHANGED <<protocolBufferActive, protocolBuffer, busy, sessionActive>>]_vars

\* A plain send of "aé" has resolved: the last two writes are its three bytes
\* and 0x04.
C22_Witness ==
    /\ sres["run"] = "resolved" /\ ~useRawPaste["run"] /\ handle["run"] = "open"
    /\ text["run"] = <<97, 233>>
    /\ Len(WritesOf("run")) >= 2
    /\ WritesOf("run")[Len(WritesOf("run")) - 1].bytes = <<97, 195, 169>>
    /\ WritesOf("run")[Len(WritesOf("run"))].bytes = EndOfData
    /\ ~protocolBufferActive /\ busy = "run" /\ sessionActive

\* openSession resolves and returns the handle.
OpenResolves(t) == opc[t] \in NegPcs /\ opc'[t] = "idle" /\ ores'[t] = "resolved"

\* C23: when openSession resolves, capture is disabled, the session is marked
\* active so that chunks go to the session and not to the console, busy is the
\* reason of the caller, and the capability is that of the branch taken: raw
\* paste exactly when the probe answer was 0x52 0x01, with the window the device
\* announced, and no raw paste and window 0 otherwise.
C23_ResolvedSessionState ==
    [][\A t \in Tasks :
        OpenResolves(t) =>
            /\ ~protocolBufferActive'
            /\ sessionActive'
            /\ RouteOf' \in {"session", "nobody"}
            /\ busy' = t
            /\ useRawPaste'[t] = (response'[t] = AckPair)
            /\ windowSize'[t] = IF windowBytes'[t] # <<>>
                                THEN WindowSizeOf(windowBytes'[t][1], windowBytes'[t][2])
                                ELSE 0]_vars

\* C24: close() first waits (nothing changes), then clears the active flag
\* without writing, then writes 0x02, and tears down (busy, callback, buffer,
\* capture) only after the settle delay; every chunk read after the write of
\* 0x02, while close() is in its settle delay, goes to the console consumer.
C24_ExitPromptToConsole ==
    [][\A t \in Tasks :
        /\ (cpc[t] = "idle" /\ cpc'[t] # "idle") =>
               /\ cpc'[t] = "c_drain"
               /\ UNCHANGED <<storeVars, wire>>
        /\ (cpc[t] = "c_drain" /\ cpc'[t] # "c_drain") =>
               /\ cpc'[t] = "c_exit"
               /\ ~sessionActive'
               /\ UNCHANGED <<busy, sessionOnData, protocolBuffer, protocolBufferActive, wire>>
        /\ (cpc[t] = "c_exit" /\ cpc'[t] = "c_settle") =>
               /\ wire' = wire \o <<[by |-> t, bytes |-> ExitRaw]>>
               /\ UNCHANGED <<busy, sessionOnData, protocolBuffer, protocolBufferActive>>
        /\ (cpc[t] = "c_settle" /\ cpc'[t] # "c_settle") =>
               /\ busy' = "null" /\ sessionOnData' = "null"
               /\ protocolBuffer' = <<>> /\ ~protocolBufferActive'
        /\ (cpc[t] = "c_settle" /\ ChunkRead) => routed' = "console"]_vars

\* The exit prompt was read during the settle delay of close() and went to the
\* console.
C24_Witness ==
    /\ cpc["run"] = "c_settle" /\ routed = "console" /\ rx = <<>> /\ dev = "none"
    /\ wire[Len(wire)] = [by |-> "run", bytes |-> ExitRaw]
    /\ ~sessionActive /\ busy = "run"

\* The 1-based position in the byte string of the first byte '>', the marker the
\* code waits for; 0 when there is none.
MarkerEnd(bs) ==
    LET hits == {i \in 1..Len(bs) : bs[i] = 62}
    IN IF hits = {} THEN 0 ELSE CHOOSE i \in hits : \A j \in hits : i <= j

\* C25: a readUntil('>') that matches removes from the protocol buffer exactly
\* the bytes up to and including the first '>', whatever bytes precede it,
\* returns them as text, and leaves every byte after the '>' in the buffer.
C25_TakeUntilConsumesThroughMarker ==
    [][\A t \in Tasks :
        (opc[t] = "n_prompt" /\ opc'[t] # "n_prompt" /\ rawPrompt'[t] # <<>>) =>
            /\ rawPrompt'[t] = Decode(Slice(protocolBuffer, 0, MarkerEnd(protocolBuffer)))
            /\ protocolBuffer' = SliceFrom(protocolBuffer, MarkerEnd(protocolBuffer))]_vars

\* A Connection exists: connect() has completed and disconnect() has not been
\* called since.
Connected == port /\ kpc = "idle" /\ dpc = "idle"

\* C26: whenever a Connection exists, after any sequence of connects, failed
\* connects and disconnects, one read loop runs on its port and currentReader
\* holds the reader of that loop; and a read loop that ends clears the handle
\* only if the handle holds its own reader, so the end of an older loop leaves
\* the handle of the newer loop in place.
C26_OneLoopPerConnection ==
    /\ [](Connected => (reading /\ currentReader = "cur"))
    /\ [][(lost = "reading" /\ lost' = "ended") =>
             /\ currentReader = "lost" => currentReader' = "null"
             /\ currentReader # "lost" => currentReader' = currentReader]_vars

\* The loop on the lost port has ended while a newer loop runs on the port of
\* the Connection, and the handle still holds the reader of the newer loop.
C26_Witness ==
    Connected /\ lost = "ended" /\ reading /\ currentReader = "cur"

\* C27: disconnect() cancels the reader, if there is one, before it closes the
\* port, so no read loop runs on the port while the close is awaited; when
\* disconnect() returns, whether the cancel or the close failed or not, the
\* handle is unset and the read loop has ended; and only a running read loop
\* delivers a chunk, so none is delivered after that.
C27_DisconnectStopsLoop ==
    /\ [](dpc = "d_close" => (~reading /\ currentReader = "null"))
    /\ [][/\ (dpc = "idle" /\ dpc' # "idle") =>
                dpc' = (IF currentReader # "null" THEN "d_cancel" ELSE "d_close")
          /\ (dpc = "d_cancel" /\ dpc' # "d_cancel") => (dpc' = "d_close" /\ transport')
          /\ DisconnectReturns => (~port' /\ ~reading' /\ currentReader' = "null")
          /\ ChunkRead => reading]_vars

\* A connection was made, wake sequence included, and taken down again: the
\* port is closed, the handle unset and no read loop runs.
C27_Witness ==
    /\ ~port /\ ~transport /\ ~reading /\ currentReader = "null"
    /\ kpc = "idle" /\ dpc = "idle" /\ kres = "resolved"
    /\ Len(wire) >= 3 /\ wire[3] = [by |-> "connect", bytes |-> <<13, 10>>]

\* The wake sequence as connect() writes it.
WakeWrites ==
    <<[by |-> "connect", bytes |-> Interrupt],
      [by |-> "connect", bytes |-> EndOfData],
      [by |-> "connect", bytes |-> <<13, 10>>]>>

\* connect() returns after its last write.
ConnectCompletes == kpc = "k_crlf" /\ kpc' = "idle" /\ port'

\* C28: connect() opens the port first, then sets the control lines, then starts
\* the read loop, and only then writes: the port is open from the control
\* lines on, the read loop runs from the first wake write on, nothing of the
\* wake sequence is written before, and a connect() that completes has
\* written 0x03, 0x04 and CR LF in this order.
C28_ConnectOrder ==
    /\ [](kpc \in {"k_signals", "k_settle", "k_int", "k_eod", "k_crlf"} => transport)
    /\ [](kpc \in {"k_int", "k_eod", "k_crlf"} => reading)
    /\ [](kpc \in {"k_request", "k_open", "k_signals", "k_settle"} => WritesOf("connect") = <<>>)
    /\ [][/\ Len(WritesOf("connect")') > Len(WritesOf("connect")) => (transport /\ reading)
          /\ ConnectCompletes => (WritesOf("connect")' = WakeWrites /\ transport' /\ reading')]_vars

\* connect() has completed: the port is open, the read loop runs and the wire
\* has seen the wake sequence.
C28_Witness ==
    Connected /\ transport /\ reading /\ kres = "resolved" /\ WritesOf("connect") = WakeWrites

\* C29: a raw-paste send with a window W > 0 eventually settles whatever the
\* device does, its writes completing: also when the device never sends a
\* flow-control byte after a window, or sends one that is neither 0x01 nor 0x04.
C29_SendSettles ==
    (spc["run"] # "idle" /\ useRawPaste["run"] /\ windowSize["run"] > 0)
        ~> (spc["run"] = "idle")

\* C30: an openSession that has begun eventually settles, whatever the device
\* sends or fails to send, its writes completing: every wait of the negotiation
\* is a readUntil or readBytes with a deadline.
C30_OpenSettles ==
    (opc["run"] # "idle") ~> (opc["run"] = "idle")

\* openSession has settled although the device never answered the enter-raw
\* byte: the wait for the prompt timed out.
C30_Witness ==
    /\ opc["run"] = "idle" /\ ores["run"] = "Failed to enter raw REPL"
    /\ rawPrompt["run"] = <<>>
    /\ WritesOf("run") = <<[by |-> "run", bytes |-> EnterRaw]>>

\* C31: every chunk the read loop reads while a raw-paste send is in flight, a
\* flow-control or acknowledgement byte of the device, goes to the protocol
\* buffer, where the takes of send find it.
C31_FlowBytesCaptured ==
    [][(ChunkRead /\ spc["run"] # "idle" /\ useRawPaste["run"]) => routed' = "buffer"]_vars

\* A step of an operation on a stale handle of caller t: close() is called or
\* its drain delay ends while the engine belongs to someone else, or the
\* negotiation of t fails.
StaleStep(t) ==
    \/ cpc[t] \in {"idle", "c_drain"} /\ cpc'[t] # cpc[t]
    \/ OpenRejects(t)

\* C32: while a newer session of another caller owns the engine (busy names
\* it and the active flag is set), no step of close() on a stale handle and
\* no late failure of an interrupted negotiation changes busy, the active
\* flag, the onData callback, the accumulator or the capture flag.
C32_StaleHandleHarmless ==
    [][\A t \in Tasks : \A u \in Tasks \ {t} :
         (busy = u /\ sessionActive /\ StaleStep(t))
             => UNCHANGED <<busy, sessionActive, sessionOnData,
                            protocolBuffer, protocolBufferActive>>]_vars

\* C33: once close() of a session has settled (its handle is closed), capture
\* stays disabled and nothing more is written to the transport, also when a
\* send() of that session was still waiting when close() was called.
C33_ClosedSessionSilent ==
    [][/\ handle'["run"] = "closed" => ~protocolBufferActive'
       /\ handle["run"] = "closed" => wire' = wire]_vars

\* The engine is idle: the connection is open, busy is null and no caller is
\* inside openSession or close().
EngineIdle ==
    /\ port /\ busy = "null"
    /\ \A t \in Tasks : opc[t] = "idle" /\ cpc[t] = "idle"

\* A session wrote the enter-raw byte and no exit-raw byte was written after it.
RawModeLeft ==
    \E i \in 1..Len(wire) :
        /\ wire[i].by \in Tasks /\ wire[i].bytes = EnterRaw
        /\ \A j \in (i + 1)..Len(wire) : wire[j].bytes # ExitRaw

\* C34: when the engine is idle again, every enter-raw byte that openSession
\* wrote has been followed by an exit-raw byte; the device is not left in raw
\* mode, also when the negotiation failed after 0x01 was written.
C34_RawModeExited == EngineIdle => ~RawModeLeft

\* C35: whenever openSession resolves with useRawPaste set, its windowSize is
\* the little-endian value of two bytes taken from the device after the ack;
\* without those bytes no raw-paste session with a default window is returned.
C35_WindowFromDevice ==
    [][\A t \in Tasks :
         (OpenResolves(t) /\ useRawPaste'[t])
             => /\ Len(windowBytes'[t]) = 2
                /\ windowSize'[t] = WindowSizeOf(windowBytes'[t][1], windowBytes'[t][2])]_vars

\* C36: a chunk read outside capture is handed to a text consumer, the session
\* callback or the console, also while a session is active that registered no
\* onData callback.
C36_NoChunkDiscarded ==
    [][(ChunkRead /\ ~protocolBufferActive) => routed' \in {"session", "console"}]_vars

\* C37: when requestPort() settles in a connect() that was called while a
\* Connection existed (the handle set and its transport open), no transport
\* is left open or being read without a handle that disconnect() could close
\* it through: the handle stays set, and no open transport is lost.
C37_ConnectKeepsHandle ==
    [][(kpc = "k_request" /\ port /\ transport)
           => /\ lost' = "none"
              /\ port' \/ (~transport' /\ ~reading')]_vars

====
